---- MODULE Spec2Model ----
(***************************************************************************)
(* State-machine model of the stm32-emulator peripheral fabric:            *)
(* the interrupt controller (peripherals/nvic.rs), the address router and  *)
(* peripheral registry (peripherals/mod.rs), and the register models the   *)
(* router delegates to (systick.rs, scb.rs, spi.rs, gpio.rs).              *)
(*                                                                         *)
(* A u32 is kept as the pair <<hi, lo>> of its 16-bit halves, so that the  *)
(* full 32-bit width of addresses (0xA000_1000, 0xE000_E010) and values    *)
(* (0xFFFF_FFE9) is kept; every operation wraps or truncates as the Rust   *)
(* operation on u32 does.                                                  *)
(***************************************************************************)
EXTENDS Integers, Sequences, FiniteSets, TLC

\* ------------------------------------------------------------------ u32

HALF == 2 ^ 16

U32(hi, lo) == <<hi, lo>>

ZERO == U32(0, 0)

Pow2(k) == 2 ^ k

RECURSIVE BitAnd(_, _)
BitAnd(a, b) ==
    IF a = 0 \/ b = 0 THEN 0
    ELSE (a % 2) * (b % 2) + 2 * BitAnd(a \div 2, b \div 2)

RECURSIVE BitOr(_, _)
BitOr(a, b) ==
    IF a = 0 THEN b
    ELSE IF b = 0 THEN a
    ELSE (IF a % 2 = 1 \/ b % 2 = 1 THEN 1 ELSE 0) + 2 * BitOr(a \div 2, b \div 2)

RECURSIVE BitXor(_, _)
BitXor(a, b) ==
    IF a = 0 THEN b
    ELSE IF b = 0 THEN a
    ELSE ((a + b) % 2) + 2 * BitXor(a \div 2, b \div 2)

\* x & y, x | y, !x on u32
and32(x, y) == U32(BitAnd(x[1], y[1]), BitAnd(x[2], y[2]))
or32(x, y) == U32(BitOr(x[1], y[1]), BitOr(x[2], y[2]))
xor32(x, y) == U32(BitXor(x[1], y[1]), BitXor(x[2], y[2]))
not32(x) == U32(HALF - 1 - x[1], HALF - 1 - x[2])

\* x << k on u32 (0 <= k < 32): the bits shifted out are dropped
shl32(x, k) ==
    IF k >= 16
    THEN U32(((x[2] % Pow2(32 - k)) * Pow2(k - 16)) % HALF, 0)
    ELSE U32((x[1] % Pow2(16 - k)) * Pow2(k) + (x[2] * Pow2(k)) \div HALF,
             (x[2] * Pow2(k)) % HALF)

\* x >> k on u32 (0 <= k < 32)
shr32(x, k) ==
    IF k >= 16
    THEN U32(0, x[1] \div Pow2(k - 16))
    ELSE U32(x[1] \div Pow2(k),
             x[2] \div Pow2(k) + (x[1] % Pow2(k)) * Pow2(16 - k))

\* wrapping x + y, x - y on u32
add32(x, y) ==
    LET lo == x[2] + y[2]
    IN U32((x[1] + y[1] + lo \div HALF) % HALF, lo % HALF)

sub32(x, y) ==
    LET lo == x[2] - y[2]
        borrow == IF lo < 0 THEN 1 ELSE 0
    IN U32((x[1] - y[1] - borrow + HALF) % HALF, (lo + HALF) % HALF)

lt32(x, y) == x[1] < y[1] \/ (x[1] = y[1] /\ x[2] < y[2])
le32(x, y) == x = y \/ lt32(x, y)

\* bit k of x
bit32(x, k) == IF k >= 16 THEN (x[1] \div Pow2(k - 16)) % 2 ELSE (x[2] \div Pow2(k)) % 2

\* u32::to_le_bytes / u32::from_le_bytes
to_le_bytes(v) == << v[2] % 256, v[2] \div 256, v[1] % 256, v[1] \div 256 >>
from_le_bytes(b) == U32(b[3] + 256 * b[4], b[1] + 256 * b[2])

\* Option<T>
None == << >>
Some(x) == << x >>

\* ------------------------------------------------------- CPU host (uc)
\* The CPU host is an external collaborator; what is modelled is the part of
\* its interface the emulator calls: reg_read / reg_write on named registers
\* and mem_read / mem_write on mapped memory.  SP names the stack pointer
\* that CONTROL.SPSEL selects (MSP when 0, PSP when 1).

\* config.regions: flash (holding the vector table) and RAM; both are mapped
\* with their size rounded up to PAGE (system.rs load_memory_regions)
PAGE == 4096
round_up(n, boundary) == ((n + boundary - 1) \div boundary) * boundary

FlashStart == U32(2048, 0)    \* region.start = 0x0800_0000
RamStart == U32(8192, 0)      \* region.start = 0x2000_0000
FlashRegionSize == 1024
RamRegionSize == 8192

\* config.cpu.vector_table
vector_table_addr == FlashStart

\* number of external IRQ lines the model's vector table has entries for
NumExtIrq == 2

\* firmware image: the word at vector n is the address of handler n (Thumb bit set)
HandlerAddr(n) == U32(FlashStart[1], 512 + 16 * n + 1)

FlashByte(off) ==
    IF off < 4 * (16 + NumExtIrq)
    THEN to_le_bytes(HandlerAddr(off \div 4))[(off % 4) + 1]
    ELSE 0

InFlash(a) == a[1] = FlashStart[1] /\ a[2] < round_up(FlashRegionSize, PAGE)
InRam(a) == a[1] = RamStart[1] /\ a[2] < round_up(RamRegionSize, PAGE)

\* one byte of mapped memory; RAM bytes never written read as 0
MemByte(uc, a) ==
    IF InFlash(a) THEN FlashByte(a[2])
    ELSE IF a[2] \in DOMAIN uc.mem THEN uc.mem[a[2]] ELSE 0

\* uc.mem_read(addr, buf): Err when a byte of the range is unmapped
mem_read(uc, addr, n) ==
    IF \A i \in 1..n : InFlash(add32(addr, U32(0, i - 1))) \/ InRam(add32(addr, U32(0, i - 1)))
    THEN [ok |-> TRUE, bytes |-> [i \in 1..n |-> MemByte(uc, add32(addr, U32(0, i - 1)))]]
    ELSE [ok |-> FALSE, bytes |-> [i \in 1..n |-> 0]]

\* uc.mem_write(addr, bytes): Err when a byte of the range is unmapped; the
\* bytes of a range inside the RAM region lie at addr[2], addr[2] + 1, ...
mem_write(uc, addr, bytes) ==
    IF \A i \in 1..Len(bytes) : InRam(add32(addr, U32(0, i - 1)))
    THEN [ok |-> TRUE,
          uc |-> [uc EXCEPT !.mem =
                     [o \in (DOMAIN uc.mem) \cup (addr[2]..(addr[2] + Len(bytes) - 1)) |->
                         IF o >= addr[2] /\ o < addr[2] + Len(bytes)
                         THEN bytes[o - addr[2] + 1]
                         ELSE uc.mem[o]]]]
    ELSE [ok |-> FALSE, uc |-> uc]

spsel_of(control) == bit32(control, 1) = 1
fpca_of(control) == bit32(control, 2) = 1

ActiveSp(uc) == IF spsel_of(uc.regs["CONTROL"]) THEN "PSP" ELSE "MSP"

\* uc.reg_read(reg)
reg_read(uc, reg) ==
    IF reg = "SP" THEN uc.regs[ActiveSp(uc)]
    ELSE IF reg = "IPSR" THEN U32(0, uc.regs["XPSR"][2] % 512)
    ELSE uc.regs[reg]

\* uc.reg_write(reg, value); IPSR is the 9-bit exception-number field of XPSR
reg_write(uc, reg, v) ==
    IF reg = "SP" THEN [uc EXCEPT !.regs[ActiveSp(uc)] = v]
    ELSE IF reg = "IPSR"
    THEN [uc EXCEPT !.regs["XPSR"] = U32(@[1], @[2] - (@[2] % 512) + (v[2] % 512))]
    ELSE [uc EXCEPT !.regs[reg] = v]

\* `irq as u64`, truncated by the host to the register's 32 bits
irq_as_u32(irq) == IF irq >= 0 THEN U32(0, irq) ELSE U32(HALF - 1, HALF + irq)

\* --------------------------------------------------- interrupt controller

IRQ_OFFSET == 16
PENDSV == -2
SYSTICK == -1

\* History kept for the properties (not program state).  `frames` counts the
\* context frames pushed and not yet popped.  The other fields describe the
\* step just taken and are cleared when the next step begins: `fresh` says
\* that the step dispatched an interrupt, `sched` is the pending set at its
\* dispatch point, `ret` its exception return (with the dispatch it answers),
\* `route` the slot and offset its last delegated access went to.
\* `dispatch` describes the dispatch not yet answered by a return.
\* `dma` lists the writes a DMA transfer of the step handed to its sink, and
\* `calls` the GPIO callbacks and the external-device calls of the step.
ObsInit ==
    [frames |-> 0, fresh |-> FALSE, sched |-> None, dispatch |-> None,
     ret |-> None, route |-> None, dma |-> << >>, calls |-> << >>, spi |-> << >>,
     serial |-> None, excp |-> None, pump |-> FALSE]

ObserveBegin(s) ==
    [s EXCEPT !.obs.fresh = FALSE, !.obs.sched = None, !.obs.ret = None,
              !.obs.excp = None, !.obs.pump = FALSE,
              !.obs.route = None, !.obs.dma = << >>, !.obs.calls = << >>]

\* `excp` is the exception code the interrupt hook was called with in this step
ObserveExcp(s, exception) == [s EXCEPT !.obs.excp = Some(exception)]

\* `pump` says whether the code hook redrew and pumped the host's events in this step
ObservePump(s, pumped) == [s EXCEPT !.obs.pump = pumped]

ObserveDma(s, j, offset, value) ==
    [s EXCEPT !.obs.dma = Append(@, [slot |-> j, offset |-> offset, value |-> value])]

ObserveCall(s, c) == [s EXCEPT !.obs.calls = Append(@, c)]

\* `serial` keeps the last byte written to a serial device that was not an
\* idle byte (for a touchscreen: that had the start bit), whether the device
\* took it as a new command, the touch position at that time and the number
\* of reads since
ObserveWrite(s, dev, v, idle, fresh, pos) ==
    IF idle THEN s
    ELSE [s EXCEPT !.obs.serial = Some([dev |-> dev, byte |-> v, fresh |-> fresh,
                                        pos |-> pos, n |-> 0])]

ObserveRead(s, dev, value) ==
    IF s.obs.serial # None /\ s.obs.serial[1].dev = dev
    THEN [s EXCEPT !.obs.serial[1].n = @ + 1,
                   !.obs.calls = Append(@, [kind |-> "read", dev |-> dev, value |-> value,
                                            since |-> Some([s.obs.serial[1] EXCEPT !.n = @ + 1])])]
    ELSE [s EXCEPT !.obs.calls = Append(@, [kind |-> "read", dev |-> dev, value |-> value,
                                            since |-> None])]

\* `spi` keeps, per software SPI, the MOSI levels sampled and the MISO levels
\* presented at the clock's rising edges since bit_index was last 0, and the
\* byte the device returned at the end of the frame before (None after a
\* select); a frame that ends is entered in `calls`
SpiFrameInit == [mosi |-> << >>, miso |-> << >>, prev |-> None]

ObserveRegister(s) == [s EXCEPT !.obs.spi = Append(@, SpiFrameInit)]

ObserveSelect(s, k) == [s EXCEPT !.obs.spi[k] = SpiFrameInit]

ObserveEdge(s, k, mosi, miso) ==
    [s EXCEPT !.obs.spi[k].mosi = Append(@, mosi), !.obs.spi[k].miso = Append(@, miso)]

ObserveFrame(s, k, ret) ==
    [s EXCEPT !.obs.calls = Append(@, [kind |-> "frame", spi |-> k,
                                       mosi |-> s.obs.spi[k].mosi,
                                       miso |-> s.obs.spi[k].miso,
                                       prev |-> s.obs.spi[k].prev]),
              !.obs.spi[k] = [mosi |-> << >>, miso |-> << >>, prev |-> Some(ret)]]

ObservePush(s) == [s EXCEPT !.obs.frames = @ + 1]
ObservePop(s) == [s EXCEPT !.obs.frames = @ - 1]

ObserveDispatchPoint(s, pending) == [s EXCEPT !.obs.sched = Some(pending)]

ObserveDispatch(s, before, irq, spsel, fpca) ==
    [s EXCEPT !.obs.fresh = TRUE,
              !.obs.dispatch =
                 Some([irq |-> irq, nested |-> before.nvic.in_interrupt,
                       primask |-> reg_read(before.uc, "PRIMASK"),
                       spsel |-> spsel, fpca |-> fpca,
                       sp |-> reg_read(before.uc, "SP"),
                       regs |-> before.uc.regs])]

ObserveReturn(s, before) ==
    [s EXCEPT !.obs.dispatch = None,
              !.obs.ret = Some([dispatch |-> before.obs.dispatch,
                                at_entry |-> before.uc, at_exit |-> s.uc])]

ObserveDelegate(s, i, addr) ==
    [s EXCEPT !.obs.route =
        Some([slot |-> i, addr |-> addr, offset |-> sub32(addr, s.peripherals[i].start)])]

\* Nvic::default()
NvicDefault ==
    [systick_period |-> None, last_systick_trigger |-> 0,
     pending |-> {}, in_interrupt |-> FALSE]

\* The u128 `pending` is kept as the set of its set bits.
set_intr_pending(s, irq) ==
    LET bit == IRQ_OFFSET + irq
    IN IF ~(bit > 0) THEN [s EXCEPT !.panic = TRUE]
       ELSE [s EXCEPT !.nvic.pending = @ \cup {IRQ_OFFSET + irq}]

\* the highest set bit instead of the lowest
leading_one(bits) == CHOOSE b \in bits : \A c \in bits : b >= c

trailing_zeros(bits) == CHOOSE b \in bits : \A c \in bits : b <= c

\* the pending line of highest number taken first
get_and_clear_last_intr_pending(s) ==
    IF s.nvic.pending # {}
    THEN LET bit == CHOOSE b \in s.nvic.pending : \A c \in s.nvic.pending : b >= c
         IN [s |-> [s EXCEPT !.nvic.pending = @ \ {bit}],
             irq |-> Some(bit - IRQ_OFFSET)]
    ELSE [s |-> s, irq |-> None]

get_and_clear_next_intr_pending(s) ==
    IF s.nvic.pending # {}
    THEN LET bit == trailing_zeros(s.nvic.pending)
         IN [s |-> [s EXCEPT !.nvic.pending = @ \ {bit}],
             irq |-> Some(bit - IRQ_OFFSET)]
    ELSE [s |-> s, irq |-> None]

\* the tick one instruction early
maybe_set_systick_intr_pending_early(s, n) ==
    IF s.nvic.systick_period # None
    THEN LET systick_period == s.nvic.systick_period[1]
             delta_num_instructions == n - s.nvic.last_systick_trigger
         IN IF systick_period[1] = 0 /\ delta_num_instructions >= systick_period[2]
            THEN set_intr_pending([s EXCEPT !.nvic.last_systick_trigger = n], SYSTICK)
            ELSE s
    ELSE s

\* n is NUM_INSTRUCTIONS (u64); the period is a u32 widened to u64
maybe_set_systick_intr_pending(s, n) ==
    IF s.nvic.systick_period # None
    THEN LET systick_period == s.nvic.systick_period[1]
             delta_num_instructions == n - s.nvic.last_systick_trigger
         IN IF systick_period[1] = 0 /\ delta_num_instructions > systick_period[2]
            THEN set_intr_pending([s EXCEPT !.nvic.last_systick_trigger = n], SYSTICK)
            ELSE s
    ELSE s

are_interrupts_disabled(s) == reg_read(s.uc, "PRIMASK") # ZERO

read_vector_addr(s, irq) ==
    LET vaddr == add32(vector_table_addr, U32(0, 4 * (IRQ_OFFSET + irq)))
        r == mem_read(s.uc, vaddr, 4)
    IN [ok |-> r.ok, vector |-> from_le_bytes(r.bytes)]

CONTEXT_REGS_EXTENDED ==
    << "FPSCR", "S15", "S14", "S13", "S12", "S11", "S10", "S9", "S8",
       "S7", "S6", "S5", "S4", "S3", "S2", "S1", "S0" >>

\* R0 and R1 exchanged in the frame
CONTEXT_REGS_swapped == << "XPSR", "PC", "LR", "R12", "R3", "R2", "R0", "R1" >>

CONTEXT_REGS == << "XPSR", "PC", "LR", "R12", "R3", "R2", "R1", "R0" >>

\* the push_reg closure applied to a list of registers in order
RECURSIVE push_each(_, _, _)
push_each(s, sp, regs) ==
    IF regs = << >> \/ s.panic THEN [s |-> s, sp |-> sp]
    ELSE LET v == reg_read(s.uc, Head(regs))
             sp1 == sub32(sp, U32(0, 4))
             w == mem_write(s.uc, sp1, to_le_bytes(v))
         IN IF w.ok
            THEN push_each([s EXCEPT !.uc = w.uc], sp1, Tail(regs))
            ELSE [s |-> [s EXCEPT !.panic = TRUE], sp |-> sp1]

push_regs(s, spsel, fpca) ==
    LET sp_reg == IF spsel THEN "PSP" ELSE "MSP"
        sp == reg_read(s.uc, sp_reg)
        a == IF fpca THEN push_each(s, sp, CONTEXT_REGS_EXTENDED)
                     ELSE [s |-> s, sp |-> sp]
        b == push_each(a.s, a.sp, CONTEXT_REGS)
    IN IF b.s.panic THEN b.s
       ELSE ObservePush([b.s EXCEPT !.uc = reg_write(b.s.uc, "SP", b.sp)])

Reverse(q) == [i \in 1..Len(q) |-> q[Len(q) + 1 - i]]

\* the pop_reg closure applied to a list of registers in order
RECURSIVE pop_each(_, _, _)
pop_each(s, sp, regs) ==
    IF regs = << >> \/ s.panic THEN [s |-> s, sp |-> sp]
    ELSE LET r == mem_read(s.uc, sp, 4)
             v == from_le_bytes(r.bytes)
         IN IF r.ok
            THEN pop_each([s EXCEPT !.uc = reg_write(s.uc, Head(regs), v)],
                          add32(sp, U32(0, 4)), Tail(regs))
            ELSE [s |-> [s EXCEPT !.panic = TRUE], sp |-> sp]

pop_regs(s, spsel, fpca) ==
    LET sp_reg == IF spsel THEN "PSP" ELSE "MSP"
        sp == reg_read(s.uc, sp_reg)
        a == pop_each(s, sp, Reverse(CONTEXT_REGS))
        b == IF fpca THEN pop_each(a.s, a.sp, Reverse(CONTEXT_REGS_EXTENDED))
                     ELSE a
    IN IF b.s.panic THEN b.s
       ELSE ObservePop([b.s EXCEPT !.uc = reg_write(b.s.uc, "SP", b.sp)])

\* bit 4 set for an extended frame
exc_return_fpca_set(spsel, fpca) ==
    LET lr0 == U32(HALF - 1, 65513)
        lr1 == IF spsel THEN or32(lr0, U32(0, 4)) ELSE lr0
        lr2 == IF fpca THEN or32(lr1, U32(0, 16)) ELSE lr1
    IN lr2

\* the EXC_RETURN value put in LR on entry
exc_return(spsel, fpca) ==
    LET lr0 == U32(HALF - 1, 65513)                                  \* 0xFFFF_FFE9
        lr1 == IF spsel THEN or32(lr0, U32(0, 4)) ELSE lr0           \* 0b0000_0100
        lr2 == IF ~fpca THEN or32(lr1, U32(0, 16)) ELSE lr1          \* 0b0001_0000
    IN lr2

run_interrupt(s, irq) ==
    LET v == read_vector_addr(s, irq)
        control_reg == reg_read(s.uc, "CONTROL")
        spsel == spsel_of(control_reg)
        fpca == fpca_of(control_reg)
        s1 == push_regs(s, spsel, fpca)
        uc1 == reg_write(s1.uc, "LR", exc_return(spsel, fpca))
        uc2 == reg_write(uc1, "IPSR", irq_as_u32(irq))
        uc3 == reg_write(uc2, "PC", v.vector)
    IN IF ~v.ok THEN [s EXCEPT !.panic = TRUE]
       ELSE IF s1.panic THEN s1
       ELSE ObserveDispatch([s1 EXCEPT !.uc = uc3, !.nvic.in_interrupt = TRUE],
                            s, irq, spsel, fpca)

\* the scheduler without its in_interrupt test
run_pending_interrupts_nesting(s, n) ==
    LET s1 == maybe_set_systick_intr_pending(s, n)
    IN IF s1.panic THEN s1
       ELSE IF are_interrupts_disabled(s1) THEN s1
       ELSE LET g == get_and_clear_next_intr_pending(s1)
            IN IF g.irq # None
               THEN run_interrupt(ObserveDispatchPoint(g.s, s1.nvic.pending), g.irq[1])
               ELSE s1

\* the gate tested before the tick is considered
run_pending_interrupts_gate_first(s, n) ==
    IF are_interrupts_disabled(s) \/ s.nvic.in_interrupt THEN s
    ELSE LET s1 == maybe_set_systick_intr_pending(s, n)
             g == get_and_clear_next_intr_pending(s1)
         IN IF g.irq # None
            THEN run_interrupt(ObserveDispatchPoint(g.s, s1.nvic.pending), g.irq[1])
            ELSE s1

run_pending_interrupts(s, n) ==
    LET s1 == maybe_set_systick_intr_pending(s, n)
    IN IF s1.panic THEN s1
       ELSE IF are_interrupts_disabled(s1) \/ s1.nvic.in_interrupt THEN s1
       ELSE LET g == get_and_clear_next_intr_pending(s1)
            IN IF g.irq # None
               THEN run_interrupt(ObserveDispatchPoint(g.s, s1.nvic.pending), g.irq[1])
               ELSE s1

\* the return without the clearing of in_interrupt
return_from_interrupt_in_handler(s) ==
    LET lr == reg_read(s.uc, "LR")
        coded == and32(lr, U32(HALF - 1, 65280)) = U32(HALF - 1, 65280)
        control_reg == reg_read(s.uc, "CONTROL")
        spsel == IF coded THEN and32(lr, U32(0, 4)) # ZERO ELSE spsel_of(control_reg)
        fpca == IF coded THEN and32(lr, U32(0, 16)) = ZERO ELSE fpca_of(control_reg)
        s1 == pop_regs(s, spsel, fpca)
        control_new == U32(0, (IF spsel THEN 2 ELSE 0) + (IF fpca THEN 4 ELSE 0))
    IN IF s1.panic THEN s1
       ELSE ObserveReturn([s1 EXCEPT !.uc = reg_write(s1.uc, "CONTROL", control_new)], s)

return_from_interrupt(s) ==
    LET lr == reg_read(s.uc, "LR")
    IN IF and32(lr, U32(HALF - 1, 65280)) = U32(HALF - 1, 65280)      \* 0xFFFF_FF00
       THEN LET spsel == and32(lr, U32(0, 4)) # ZERO
                fpca == and32(lr, U32(0, 16)) = ZERO
                s1 == pop_regs(s, spsel, fpca)
                control_reg == U32(0, (IF spsel THEN 2 ELSE 0) + (IF fpca THEN 4 ELSE 0))
            IN IF s1.panic THEN s1
               ELSE ObserveReturn([s1 EXCEPT !.uc = reg_write(s1.uc, "CONTROL", control_reg),
                                             !.nvic.in_interrupt = FALSE], s)
       ELSE LET control_reg == reg_read(s.uc, "CONTROL")
                spsel == spsel_of(control_reg)
                fpca == fpca_of(control_reg)
                s1 == pop_regs(s, spsel, fpca)
            IN IF s1.panic THEN s1
               ELSE ObserveReturn([s1 EXCEPT !.nvic.in_interrupt = FALSE], s)

\* ------------------------------------------------------- external devices

\* ExtDevices: the devices of the configuration, by kind (ext_devices/mod.rs)
ExtDevicesDefault ==
    [spi_flashes |-> << >>, usart_probes |-> << >>, displays |-> << >>,
     lcds |-> << >>, touchscreens |-> << >>]

\* u32::to_be_bytes
to_be_bytes(v) == Reverse(to_le_bytes(v))

\* ---- SPI flash (spi_flash.rs)

\* SpiFlash::new: the file's content, resized to config.size
SpiFlashNew(config, file) ==
    [config |-> config,
     content |-> [a \in 0..(config.size - 1) |-> IF a < Len(file) THEN file[a + 1] ELSE 0],
     reply |-> None, cmd |-> None]

\* Command::try_from(v)
SpiFlash_Command(v) ==
    CASE v = 3 -> Some("ReadData")
      [] v = 159 -> Some("ReadJEDECID")
      [] v = 144 -> Some("ReadDeviceID")
      [] OTHER -> None

\* the identifier least significant byte first
try_process_command_le(f, cmd, args) ==
    CASE cmd = "ReadJEDECID" /\ args = << >> ->
           Some([kind |-> "Data", d |-> to_le_bytes(f.config.jedec_id)])
      [] OTHER -> None

\* SpiFlash::try_process_command
try_process_command(f, cmd, args) ==
    CASE cmd = "ReadJEDECID" /\ args = << >> ->
           Some([kind |-> "Data", d |-> to_be_bytes(f.config.jedec_id)])
      [] cmd = "ReadDeviceID" /\ args = << >> ->
           Some([kind |-> "Data", d |-> to_be_bytes(U32(170, 48076))])     \* 0xAABBCC
      [] cmd = "ReadData" /\ Len(args) = 3 ->
           LET addr == args[1] * 65536 + args[2] * 256 + args[3]
           IN Some([kind |-> "FileContent",
                    addr |-> IF addr >= f.config.size THEN addr % f.config.size ELSE addr])
      [] OTHER -> None

\* the cursor left where it is
SpiFlash_read_stuck(f) ==
    IF f.reply = None THEN [d |-> f, value |-> 0]
    ELSE IF f.reply[1].kind = "Data"
    THEN IF f.reply[1].d = << >> THEN [d |-> f, value |-> 0]
         ELSE [d |-> [f EXCEPT !.reply = Some([kind |-> "Data", d |-> Tail(f.reply[1].d)])],
               value |-> Head(f.reply[1].d)]
    ELSE [d |-> f, value |-> f.content[f.reply[1].addr]]

\* SpiFlash::read
SpiFlash_read(f) ==
    IF f.reply = None THEN [d |-> f, value |-> 0]
    ELSE IF f.reply[1].kind = "Data"
    THEN IF f.reply[1].d = << >> THEN [d |-> f, value |-> 0]
         ELSE [d |-> [f EXCEPT !.reply = Some([kind |-> "Data", d |-> Tail(f.reply[1].d)])],
               value |-> Head(f.reply[1].d)]
    ELSE [d |-> [f EXCEPT !.reply = Some([kind |-> "FileContent",
                                          addr |-> (f.reply[1].addr + 1) % f.config.size])],
          value |-> f.content[f.reply[1].addr]]

\* SpiFlash::write
SpiFlash_write(f, v) ==
    IF f.cmd # None
    THEN LET cmd == f.cmd[1].cmd
             args == Append(f.cmd[1].args, v)
             reply == try_process_command(f, cmd, args)
         IN IF reply # None THEN [f EXCEPT !.cmd = None, !.reply = reply]
            ELSE [f EXCEPT !.cmd = Some([cmd |-> cmd, args |-> args])]
    ELSE IF SpiFlash_Command(v) # None
    THEN LET cmd == SpiFlash_Command(v)[1]
             reply == try_process_command(f, cmd, << >>)
         IN IF reply # None THEN [f EXCEPT !.reply = reply]
            ELSE [f EXCEPT !.cmd = Some([cmd |-> cmd, args |-> << >>])]
    ELSE f

\* ---- LCD (lcd.rs): an indexed-colour framebuffer of width * height bytes
\* ---- filled through a serial peripheral

\* Lcd::new
LcdNew(config) ==
    [config |-> config, current_position |-> [x |-> 0, y |-> 0], cmd |-> None,
     drawing |-> FALSE,
     framebuffer |-> [i \in 0 .. (config.width * config.height - 1) |-> 0]]

\* Command::try_from(v)
Lcd_Command(v) ==
    CASE v = 240 -> Some("GetVersion")
      [] v = 251 -> Some("StartDrawing")
      [] v = 241 -> Some("SetPalette")
      [] v = 242 -> Some("GetPalette")
      [] OTHER -> None

\* the offset from the framebuffer's first byte that the pointer is moved by
get_framebuffer_pixel(l, x, y) == x + y * l.config.width

\* the write through the pointer; outside the framebuffer it is undefined
\* behaviour and stores nothing in the framebuffer
StorePixel(fb, i, c) == IF i \in DOMAIN fb THEN [fb EXCEPT ![i] = c] ELSE fb

\* Lcd::draw_pixel_pair: the LCD after the pair, and the two offsets written
draw_pixel_pair(l, c) ==
    LET x == l.current_position.x
        y == l.current_position.y
        i1 == get_framebuffer_pixel(l, x, y)
        i2 == get_framebuffer_pixel(l, x + 1, y)
        x2 == x + 2
        next == IF x2 >= l.config.width
                THEN [x |-> x2 % 2, y |-> IF y + 1 >= l.config.height THEN 0 ELSE y + 1]
                ELSE [x |-> x2, y |-> y]
    IN [l |-> [l EXCEPT !.framebuffer = StorePixel(StorePixel(@, i1, c), i2, c),
                        !.current_position = next],
        written |-> << i1, i2 >>]

\* Lcd::try_process_command
Lcd_try_process_command(l, cmd, args) ==
    IF cmd = "StartDrawing" /\ args = << >>
    THEN [l |-> [l EXCEPT !.current_position = [x |-> 0, y |-> 0], !.drawing = TRUE],
          reply |-> Some(<< >>)]
    ELSE [l |-> l, reply |-> None]

\* <Lcd as ExtDevice>::write; `due` is Sdl::should_redraw().  The system
\* after the write, and whether the write redrew the window
Lcd_write(s, j, v, due) ==
    LET l == s.d.lcds[j]
    IN IF l.drawing
       THEN LET r == draw_pixel_pair(l, v)
                s1 == ObserveCall(ObserveCall([s EXCEPT !.d.lcds[j] = r.l],
                                              [kind |-> "pixel", index |-> r.written[1], c |-> v]),
                                  [kind |-> "pixel", index |-> r.written[2], c |-> v])
            IN [s |-> s1, redraw |-> due \/ r.l.current_position = [x |-> 0, y |-> 0]]
       ELSE IF l.cmd # None
       THEN LET cmd == l.cmd[1].cmd
                args == Append(l.cmd[1].args, v)
                r == Lcd_try_process_command([l EXCEPT !.cmd = None], cmd, args)
            IN [s |-> [s EXCEPT !.d.lcds[j] =
                         IF r.reply # None THEN r.l
                         ELSE [r.l EXCEPT !.cmd = Some([cmd |-> cmd, args |-> args])]],
                redraw |-> FALSE]
       ELSE IF Lcd_Command(v) # None
       THEN LET cmd == Lcd_Command(v)[1]
                r == Lcd_try_process_command(l, cmd, << >>)
            IN [s |-> [s EXCEPT !.d.lcds[j] =
                         IF r.reply # None THEN r.l
                         ELSE [r.l EXCEPT !.cmd = Some([cmd |-> cmd, args |-> << >>])]],
                redraw |-> FALSE]
       ELSE [s |-> s, redraw |-> FALSE]

\* <Lcd as ExtDevice>::read
Lcd_read(s, j) == [s |-> s, value |-> 0]

\* ---- touchscreen (touchscreen.rs), an ADS7846 on a framebuffer

\* Sdl::new: no touch yet
FramebufferNew(width, height) ==
    [config |-> [width |-> width, height |-> height], touch_position |-> None]

\* Sdl::process_event; x and y are the event's coordinates as u16
process_event(fb, event) ==
    CASE event.kind = "MouseMotion" ->
           IF fb.touch_position # None
           THEN [fb EXCEPT !.touch_position = Some(<< event.x, event.y >>)] ELSE fb
      [] event.kind = "MouseButtonDown" ->
           [fb EXCEPT !.touch_position = Some(<< event.x, event.y >>)]
      [] event.kind = "MouseButtonUp" -> [fb EXCEPT !.touch_position = None]
      [] OTHER -> fb

\* Touchscreen::new (without touch_detected_pin)
TouchscreenNew(config, framebuffer) ==
    [config |-> config, framebuffer |-> framebuffer, reply |-> None]

\* Command::try_from: Err without the start bit, a panic when the operation
\* is none of the four
Touchscreen_Command(value) ==
    IF value \div 128 = 1
    THEN LET op == (value \div 16) % 8
         IN CASE op = 5 -> [ok |-> TRUE, panic |-> FALSE, op |-> "MeasureX"]
              [] op = 1 -> [ok |-> TRUE, panic |-> FALSE, op |-> "MeasureY"]
              [] op = 3 -> [ok |-> TRUE, panic |-> FALSE, op |-> "MeasureZ1"]
              [] op = 4 -> [ok |-> TRUE, panic |-> FALSE, op |-> "MeasureZ2"]
              [] OTHER -> [ok |-> FALSE, panic |-> TRUE, op |-> "none"]
    ELSE [ok |-> FALSE, panic |-> FALSE, op |-> "none"]

MAX == 4095

\* the reply's two bytes in the other order
Touchscreen_reply_swapped(v) == << (v * 16) % 256, (v \div 16) % 256 >>

\* vec![(v >> 4) as u8, (v << 4) as u8]
Touchscreen_reply(v) == << (v \div 16) % 256, (v * 16) % 256 >>

\* Touchscreen::read
Touchscreen_read(ts) ==
    IF ts.reply # None /\ ts.reply[1] # << >>
    THEN [d |-> [ts EXCEPT !.reply = Some(Tail(ts.reply[1]))], value |-> Head(ts.reply[1])]
    ELSE [d |-> ts, value |-> 0]

\* Touchscreen::write once the position is known: the measure, flipped and
\* scaled as configured.  MAX - v overflows for a position past the
\* framebuffer, v / 0 panics
Touchscreen_measure(ts, op, pos) ==
    LET fb == ts.framebuffer
        v0 == CASE op = "MeasureX" -> (pos[1] * MAX) \div fb.config.width
                [] op = "MeasureY" -> (pos[2] * MAX) \div fb.config.height
                [] OTHER -> 10
        flip == \/ op = "MeasureX" /\ ts.config.flip_x = Some(TRUE)
                \/ op = "MeasureY" /\ ts.config.flip_y = Some(TRUE)
    IN IF (flip /\ v0 > MAX) \/ ts.config.scale_down = Some(0)
       THEN [d |-> ts, panic |-> TRUE]
       ELSE [d |-> [ts EXCEPT !.reply =
                      Some(Touchscreen_reply(
                             IF ts.config.scale_down # None
                             THEN (IF flip THEN MAX - v0 ELSE v0) \div ts.config.scale_down[1]
                             ELSE IF flip THEN MAX - v0 ELSE v0))],
             panic |-> FALSE]

\* Touchscreen::write of a byte that parsed as cmd
Touchscreen_command(ts, cmd) ==
    IF cmd.panic THEN [d |-> ts, panic |-> TRUE]
    ELSE IF ~cmd.ok THEN [d |-> ts, panic |-> FALSE]
    ELSE IF ts.framebuffer.touch_position = None
    THEN [d |-> [ts EXCEPT !.reply = None], panic |-> FALSE]
    ELSE Touchscreen_measure(
             ts,
             CASE ts.config.swap_x_y = Some(TRUE) /\ cmd.op = "MeasureX" -> "MeasureY"
               [] ts.config.swap_x_y = Some(TRUE) /\ cmd.op = "MeasureY" -> "MeasureX"
               [] OTHER -> cmd.op,
             ts.framebuffer.touch_position[1])

\* Touchscreen::write
Touchscreen_write(ts, value) == Touchscreen_command(ts, Touchscreen_Command(value))

\* ---- Display (display.rs): u16 values are integers in 0..65535

Point(x, y) == [x |-> x, y |-> y]

\* Display::new: the raw framebuffer and the surface hold width * height
\* pixels; pixel i is element i + 1
DisplayNew(config) ==
    [config |-> config,
     draw_region |-> [left |-> 0, top |-> 0,
                      right |-> config.width - 1, bottom |-> config.height - 1],
     cmd |-> None,
     drawing |-> FALSE,
     current_position |-> Point(0, 0),
     framebuffer_raw |-> [i \in 1..(config.height * config.width) |-> 0],
     framebuffer |-> [i \in 1..(config.height * config.width) |-> 0]]

\* u16::swap_bytes
swap_bytes(c) == (c % 256) * 256 + (c \div 256)

\* the index get_framebuffer_raw_pixel and get_framebuffer_pixel compute
pixel_index(d, x, y) == x + y * d.config.width

\* the cursor moving down its column first
next_position_down(d) ==
    LET x == d.current_position.x
        y == (d.current_position.y + 1) % 65536
    IN IF y > d.draw_region.bottom
       THEN Point(IF (x + 1) % 65536 > d.draw_region.right
                  THEN d.draw_region.left ELSE (x + 1) % 65536,
                  d.draw_region.top)
       ELSE Point(x, y)

\* the cursor after a pixel: x += 1, then the wraps
next_position(d) ==
    LET x == (d.current_position.x + 1) % 65536
        y == d.current_position.y
    IN IF x > d.draw_region.right
       THEN Point(d.draw_region.left,
                  IF (y + 1) % 65536 > d.draw_region.bottom
                  THEN d.draw_region.top ELSE (y + 1) % 65536)
       ELSE Point(x, y)

\* Display::draw_pixel: indexing framebuffer_raw out of its bounds is a panic,
\* raised before the surface is written
draw_pixel(d, c) ==
    LET v == IF d.config.swap_bytes = Some(TRUE) THEN swap_bytes(c) ELSE c
        i == pixel_index(d, d.current_position.x, d.current_position.y)
    IN IF i < Len(d.framebuffer_raw)
       THEN [d |-> [d EXCEPT !.framebuffer_raw[i + 1] = v,
                             !.framebuffer[i + 1] = v,
                             !.current_position = next_position(d)],
             panic |-> FALSE, pixel |-> Some(i)]
       ELSE [d |-> d, panic |-> TRUE, pixel |-> Some(i)]

\* (args[j] << 8) | args[j + 1] on u16
arg_pair(args, j) == BitOr((args[j] * 256) % 65536, args[j + 1])

\* no clamp
u16_min_left(a, b) == a

u16_min(a, b) == IF a < b THEN a ELSE b

\* Display::handle_cmd; 0x2A SetHoriRegion, 0x2B SetVertRegion, 0x2C Draw
handle_cmd(d) ==
    IF d.cmd = None THEN d
    ELSE LET cmd == d.cmd[1].cmd
             args == d.cmd[1].args
         IN CASE cmd = 42 /\ Len(args) = 4 ->
                   [d EXCEPT !.cmd = None,
                             !.draw_region.left = u16_min(arg_pair(args, 1), d.config.width - 1),
                             !.draw_region.right = u16_min(arg_pair(args, 3), d.config.width - 1)]
              [] cmd = 43 /\ Len(args) = 4 ->
                   [d EXCEPT !.cmd = None,
                             !.draw_region.top = u16_min(arg_pair(args, 1), d.config.height - 1),
                             !.draw_region.bottom = u16_min(arg_pair(args, 3), d.config.height - 1)]
              [] cmd = 44 /\ Len(args) = 0 ->
                   [d EXCEPT !.cmd = None,
                             !.drawing = TRUE,
                             !.current_position = Point(d.draw_region.left, d.draw_region.top)]
              [] OTHER -> d

\* Display::finish_cmd
finish_cmd(d) == [d EXCEPT !.drawing = FALSE, !.cmd = None]

\* Mode::from_addr
Mode_from_addr(data_addr_bit, offset) ==
    IF and32(offset, data_addr_bit) # ZERO THEN "Data" ELSE "Cmd"

\* <Display as ExtDevice<u32, u32>>::read
Display_read(d, addr) == [d |-> finish_cmd(d), value |-> ZERO]

\* the data arm of Display::write before handle_cmd; `due` is what
\* Sdl::should_redraw answers (10 ms have passed since the last redraw)
Display_write_data(d, value, due) ==
    IF d.drawing
    THEN LET r == draw_pixel(d, value[2])
         IN [d |-> r.d, panic |-> r.panic, pixel |-> r.pixel,
             redraw |-> ~r.panic /\ (due \/ r.d.current_position = Point(0, 0))]
    ELSE [d |-> IF d.cmd # None
                THEN [d EXCEPT !.cmd[1].args = Append(@, value[2])]
                ELSE d,
          panic |-> FALSE, pixel |-> None, redraw |-> FALSE]

\* <Display as ExtDevice<u32, u32>>::write: the display after the write, the
\* pixel index it used, and whether it called redraw
Display_write(d, addr, value, due) ==
    LET r == IF Mode_from_addr(d.config.cmd_addr_bit, addr) = "Cmd"
             THEN [d |-> [finish_cmd(d) EXCEPT
                            !.cmd = Some([cmd |-> value[2] % 256, args |-> << >>])],
                   panic |-> FALSE, pixel |-> None, redraw |-> FALSE]
             ELSE Display_write_data(d, value, due)
    IN IF r.panic THEN r ELSE [r EXCEPT !.d = handle_cmd(r.d)]

\* ---- dyn ExtDevice<(), u8>: a device is named by its list and its place in it

\* ExtDevices::find_serial_device
find_serial_device(d, peri_name) ==
    LET first(list) ==
            LET hits == {j \in 1..Len(d[list]) : d[list][j].config.peripheral = peri_name}
            IN IF hits = {} THEN None
               ELSE Some([list |-> list, j |-> CHOOSE j \in hits : \A h \in hits : j <= h])
    IN IF first("spi_flashes") # None THEN first("spi_flashes")
       ELSE IF first("usart_probes") # None THEN first("usart_probes")
       ELSE IF first("lcds") # None THEN first("lcds")
       ELSE first("touchscreens")

ExtDevice_read(s, dev) ==
    LET r == CASE dev.list = "spi_flashes" -> SpiFlash_read(s.d[dev.list][dev.j])
               [] dev.list = "touchscreens" -> Touchscreen_read(s.d[dev.list][dev.j])
    IN [s |-> ObserveRead([s EXCEPT !.d[dev.list][dev.j] = r.d], dev, r.value),
        value |-> r.value]

\* the device after the write, and the panic the write may have raised
ExtDevice_written(s, dev, r) ==
    [s EXCEPT !.d[dev.list][dev.j] = r.d, !.panic = s.panic \/ r.panic]

ExtDevice_write(s, dev, v) ==
    LET x == s.d[dev.list][dev.j]
        s1 == ObserveCall(s, [kind |-> "write", dev |-> dev, value |-> v])
    IN CASE dev.list = "spi_flashes" ->
              [ObserveWrite(s1, dev, v, v \in { 0, 255 }, x.cmd = None, None)
                 EXCEPT !.d[dev.list][dev.j] = SpiFlash_write(x, v)]
         [] dev.list = "touchscreens" ->
              ExtDevice_written(
                  ObserveWrite(s1, dev, v, v < 128, TRUE, x.framebuffer.touch_position),
                  dev, Touchscreen_write(x, v))

\* ------------------------------------------------------ peripheral models
\* A peripheral's state is a record whose field `kind` names its concrete
\* model.  Handlers take the system record s (uc, nvic, peripherals, ...) and
\* the index i of the slot being accessed, and return the system after the
\* access (reads: with the value read).

SetPeripheral(s, i, q) == [s EXCEPT !.peripherals[i].peripheral = q]

\* ---- SysTick (systick.rs)
SysTickDefault == [kind |-> "SysTick", ctl |-> ZERO, reload |-> ZERO, val_toggle |-> FALSE]

\* ENABLE alone
has_int_enabled_bit0(q) == and32(q.ctl, U32(0, 1)) = U32(0, 1)

has_int_enabled(q) == and32(q.ctl, U32(0, 3)) = U32(0, 3)

set_nvic_systick_period(s, q) ==
    [s EXCEPT !.nvic.systick_period = IF has_int_enabled(q) THEN Some(q.reload) ELSE None]

SysTick_read(s, i, offset) ==
    LET q == s.peripherals[i].peripheral
        t == [q EXCEPT !.val_toggle = ~q.val_toggle]
    IN CASE offset = U32(0, 0) ->
              [s |-> SetPeripheral(s, i, t),
               value |-> or32(q.ctl, IF t.val_toggle THEN ZERO ELSE shl32(U32(0, 1), 16))]
         [] offset = U32(0, 4) -> [s |-> s, value |-> q.reload]
         [] offset = U32(0, 8) ->
              [s |-> SetPeripheral(s, i, t),
               value |-> IF t.val_toggle THEN ZERO ELSE shr32(q.reload, 1)]
         [] OTHER -> [s |-> s, value |-> ZERO]

SysTick_write(s, i, offset, value) ==
    LET q == s.peripherals[i].peripheral
    IN CASE offset = U32(0, 0) ->
              LET q1 == [q EXCEPT !.ctl = value]
              IN set_nvic_systick_period(SetPeripheral(s, i, q1), q1)
         [] offset = U32(0, 4) ->
              LET q1 == [q EXCEPT !.reload = value]
              IN set_nvic_systick_period(SetPeripheral(s, i, q1), q1)
         [] OTHER -> s

\* ---- SCB (scb.rs)
Scb_read(s, i, offset) == [s |-> s, value |-> ZERO]

Scb_write(s, i, offset, value) ==
    IF offset = U32(0, 4)
    THEN LET s1 == IF bit32(value, 26) # 0 THEN set_intr_pending(s, SYSTICK) ELSE s
         IN IF bit32(value, 28) # 0 THEN set_intr_pending(s1, PENDSV) ELSE s1
    ELSE s

\* ---- NVIC wrapper (nvic.rs): forwards to Nvic::read / Nvic::write
NvicWrapper_read(s, i, offset) == [s |-> s, value |-> ZERO]
NvicWrapper_write(s, i, offset, value) == s

\* ---- RCC (rcc.rs)
Rcc_read(s, i, offset) ==
    [s |-> s,
     value |-> CASE offset = U32(0, 0) -> U32(HALF - 1, HALF - 1)
                 [] offset = U32(0, 8) -> U32(0, 8)
                 [] OTHER -> ZERO]

Rcc_write(s, i, offset, value) == s

\* ---- SPI (spi.rs), with the GenericSpiDevice when no flash is bound
SpiDefault == [kind |-> "Spi", cr1 |-> ZERO, bits16 |-> FALSE, tx |-> << >>, rx |-> << >>]

\* GenericSpiDevice::xfer
GenericSpiDevice_xfer(q) == None

Spi_read(s, i, offset) ==
    LET q == s.peripherals[i].peripheral
    IN CASE offset = U32(0, 0) -> [s |-> s, value |-> q.cr1]
         [] offset = U32(0, 8) -> [s |-> s, value |-> U32(0, 3)]
         [] offset = U32(0, 12) ->
              IF q.bits16
              THEN IF Len(q.rx) >= 2
                   THEN [s |-> SetPeripheral(s, i, [q EXCEPT !.rx = Tail(Tail(q.rx))]),
                         value |-> U32(0, q.rx[1] * 256 + q.rx[2])]
                   ELSE [s |-> s, value |-> ZERO]
              ELSE IF Len(q.rx) >= 1
                   THEN [s |-> SetPeripheral(s, i, [q EXCEPT !.rx = Tail(q.rx)]),
                         value |-> U32(0, q.rx[1])]
                   ELSE [s |-> s, value |-> ZERO]
         [] OTHER -> [s |-> s, value |-> ZERO]

\* CR1 kept as the 16-bit register it is on the chip
Spi_write_16(s, i, offset, value) ==
    LET q == s.peripherals[i].peripheral
    IN IF offset = U32(0, 0)
       THEN SetPeripheral(s, i, [q EXCEPT !.bits16 = bit32(value, 11) # 0,
                                          !.cr1 = U32(0, value[2])])
       ELSE s

Spi_write(s, i, offset, value) ==
    LET q == s.peripherals[i].peripheral
    IN CASE offset = U32(0, 0) ->
              SetPeripheral(s, i, [q EXCEPT !.bits16 = bit32(value, 11) # 0, !.cr1 = value])
         [] offset = U32(0, 12) ->
              LET tx1 == IF q.bits16 THEN Append(q.tx, value[2] \div 256) ELSE q.tx
                  q1 == [q EXCEPT !.tx = Append(tx1, value[2] % 256)]
                  rx == GenericSpiDevice_xfer(q1)
              IN SetPeripheral(s, i, IF rx # None THEN [q1 EXCEPT !.rx = rx[1]] ELSE q1)
         [] OTHER -> s

\* ---- GPIO (gpio.rs)
NUM_PORTS == 11

\* GpioPorts: per port, the callbacks registered on its pins; sw_spi holds the
\* SoftwareSpi objects the callbacks' closures share
GpioPortsDefault ==
    [read_callbacks |-> [p \in 0..(NUM_PORTS - 1) |-> << >>],
     write_callbacks |-> [p \in 0..(NUM_PORTS - 1) |-> << >>],
     sw_spi |-> << >>]

GpioDefault(port_letter, port) ==
    [kind |-> "Gpio", port_letter |-> port_letter, port |-> port,
     mode |-> ZERO, otype |-> ZERO, ospeed |-> ZERO, pupd |-> ZERO,
     od |-> ZERO, lck |-> ZERO, afrl |-> ZERO, afrh |-> ZERO]

PortLetters == << "A", "B", "C", "D", "E", "F", "G", "H", "I", "J", "K" >>

\* GpioPorts::port_index
port_index(letter) == (CHOOSE k \in 1..Len(PortLetters) : PortLetters[k] = letter) - 1

\* Pin::from_str on a name of the form P<letter><number>
Pin_from_str(letter, number) ==
    IF (\E k \in 1..Len(PortLetters) : PortLetters[k] = letter) /\ number < 16
    THEN Some([port |-> port_index(letter), pin |-> number])
    ELSE None

\* ---- software SPI (sw_spi.rs); k is the place of the object in gpio.sw_spi
SoftwareSpiDefault(config, ext_device) ==
    [config |-> config, data_mosi |-> 0, data_miso |-> 0, bit_index |-> 0,
     cs |-> FALSE, clk |-> FALSE, mosi |-> FALSE, miso |-> FALSE,
     ext_device |-> ext_device]

SetSwSpi(s, k, q) == [s EXCEPT !.gpio.sw_spi[k] = q]

\* SoftwareSpi::write_cs
write_cs(s, k, value) ==
    LET q == s.gpio.sw_spi[k]
    IN IF q.cs /\ ~value
       THEN ObserveSelect(SetSwSpi(s, k, [q EXCEPT !.data_mosi = 0, !.data_miso = 0,
                                                   !.bit_index = 0, !.clk = FALSE,
                                                   !.mosi = FALSE, !.miso = FALSE,
                                                   !.cs = value]), k)
       ELSE SetSwSpi(s, k, [q EXCEPT !.cs = value])

\* the read asked of the device before the write
xfer_read_first(s, k, mosi) ==
    LET q == s.gpio.sw_spi[k]
    IN IF q.ext_device # None
       THEN LET r == ExtDevice_read(s, q.ext_device[1])
            IN [s |-> ExtDevice_write(r.s, q.ext_device[1], mosi), value |-> r.value]
       ELSE [s |-> s, value |-> 0]

\* SoftwareSpi::xfer
xfer(s, k, mosi) ==
    LET q == s.gpio.sw_spi[k]
    IN IF q.ext_device # None
       THEN ExtDevice_read(ExtDevice_write(s, q.ext_device[1], mosi), q.ext_device[1])
       ELSE [s |-> s, value |-> 0]

\* SoftwareSpi::write_clk after the eighth bit: r is what xfer returned
write_clk_byte(r, k, value) ==
    ObserveFrame(SetSwSpi(r.s, k, [r.s.gpio.sw_spi[k] EXCEPT !.data_miso = r.value,
                                                               !.clk = value]),
                 k, r.value)

\* the clock followed whatever the chip select
write_clk_unselected(s, k, value) ==
    LET q == s.gpio.sw_spi[k]
    IN IF ~q.clk /\ value
       THEN LET miso == (q.data_miso \div 128) % 2 = 1
                data_mosi == ((q.data_mosi * 2) % 256) + (IF q.mosi THEN 1 ELSE 0)
                q1 == [q EXCEPT !.miso = miso, !.data_miso = (q.data_miso * 2) % 256,
                                !.data_mosi = data_mosi, !.bit_index = q.bit_index + 1]
                s1 == ObserveEdge(SetSwSpi(s, k, q1), k, q.mosi, miso)
            IN IF q1.bit_index = 8
               THEN write_clk_byte(xfer(SetSwSpi(s1, k, [q1 EXCEPT !.bit_index = 0]),
                                        k, data_mosi), k, value)
               ELSE SetSwSpi(s1, k, [q1 EXCEPT !.clk = value])
       ELSE SetSwSpi(s, k, [q EXCEPT !.clk = value])

\* SoftwareSpi::write_clk
write_clk(s, k, value) ==
    LET q == s.gpio.sw_spi[k]
    IN IF q.cs THEN s
       ELSE IF ~q.clk /\ value
       THEN LET miso == (q.data_miso \div 128) % 2 = 1
                data_mosi == ((q.data_mosi * 2) % 256) + (IF q.mosi THEN 1 ELSE 0)
                q1 == [q EXCEPT !.miso = miso, !.data_miso = (q.data_miso * 2) % 256,
                                !.data_mosi = data_mosi, !.bit_index = q.bit_index + 1]
                s1 == ObserveEdge(SetSwSpi(s, k, q1), k, q.mosi, miso)
            IN IF q1.bit_index = 8
               THEN write_clk_byte(xfer(SetSwSpi(s1, k, [q1 EXCEPT !.bit_index = 0]),
                                        k, data_mosi), k, value)
               ELSE SetSwSpi(s1, k, [q1 EXCEPT !.clk = value])
       ELSE SetSwSpi(s, k, [q EXCEPT !.clk = value])

\* SoftwareSpi::read_miso
read_miso(s, k) == IF s.gpio.sw_spi[k].cs THEN FALSE ELSE s.gpio.sw_spi[k].miso

\* SoftwareSpi::write_mosi
write_mosi(s, k, value) ==
    LET q == s.gpio.sw_spi[k]
    IN IF q.cs THEN s ELSE SetSwSpi(s, k, [q EXCEPT !.mosi = value])

\* GpioPorts::add_read_callback / add_write_callback
add_read_callback(s, pin, cb) ==
    [s EXCEPT !.gpio.read_callbacks[pin.port] = Append(@, [pin |-> pin.pin, cb |-> cb])]

add_write_callback(s, pin, cb) ==
    [s EXCEPT !.gpio.write_callbacks[pin.port] = Append(@, [pin |-> pin.pin, cb |-> cb])]

\* SoftwareSpi::register; config's pins are Pin::from_str's results
SoftwareSpi_register(s, config) ==
    IF config.clk = None \/ config.miso = None \/ config.mosi = None
       \/ (config.cs # None /\ config.cs[1] = None)
    THEN [s EXCEPT !.panic = TRUE]
    ELSE LET k == Len(s.gpio.sw_spi) + 1
             s0 == ObserveRegister(
                     [s EXCEPT !.gpio.sw_spi =
                        Append(@, SoftwareSpiDefault(config,
                                     find_serial_device(s.d, config.name)))])
             s1 == IF config.cs # None
                   THEN add_write_callback(s0, config.cs[1][1], [k |-> k, f |-> "write_cs"])
                   ELSE s0
             s2 == add_write_callback(s1, config.clk[1], [k |-> k, f |-> "write_clk"])
             s3 == add_read_callback(s2, config.miso[1], [k |-> k, f |-> "read_miso"])
         IN add_write_callback(s3, config.mosi[1], [k |-> k, f |-> "write_mosi"])

RECURSIVE SetSum(_)
SetSum(S) == IF S = {} THEN 0 ELSE LET x == CHOOSE x \in S : TRUE IN x + SetSum(S \ {x})

\* GpioPorts::read_port: OR of 1 << pin over the read-callbacks returning true
read_port(s, port) ==
    LET cbs == s.gpio.read_callbacks[port]
        pins == {cbs[c].pin : c \in {c \in 1..Len(cbs) : read_miso(s, cbs[c].cb.k)}}
    IN SetSum({Pow2(pin) : pin \in pins})

\* the closure SoftwareSpi::register gave as a write callback
write_callback(s, cb, value) ==
    CASE cb.f = "write_cs" -> write_cs(s, cb.k, value)
      [] cb.f = "write_clk" -> write_clk(s, cb.k, value)
      [] cb.f = "write_mosi" -> write_mosi(s, cb.k, value)

\* GpioPorts::write_port's loop from the c-th callback of the port on
RECURSIVE write_port_from(_, _, _, _, _)
write_port_from(s, port, pin, value, c) ==
    IF c > Len(s.gpio.write_callbacks[port]) THEN s
    ELSE LET e == s.gpio.write_callbacks[port][c]
         IN write_port_from(
                IF e.pin = pin
                THEN write_callback(ObserveCall(s, [kind |-> "cb", port |-> port, pin |-> pin,
                                                    c |-> c, value |-> value]),
                                    e.cb, value)
                ELSE s,
                port, pin, value, c + 1)

\* the first callback of the pin only
write_port_first(s, port, pin, value) ==
    LET cbs == s.gpio.write_callbacks[port]
        hits == {c \in 1..Len(cbs) : cbs[c].pin = pin}
    IN IF hits = {} THEN s
       ELSE LET c == CHOOSE c \in hits : \A h \in hits : c <= h
            IN write_callback(ObserveCall(s, [kind |-> "cb", port |-> port, pin |-> pin,
                                              c |-> c, value |-> value]),
                              cbs[c].cb, value)

\* GpioPorts::write_port: every callback of the pin, in the order registered
write_port(s, port, pin, value) == write_port_from(s, port, pin, value, 1)

\* Gpio::iter_port_reg_changes: the (pin, v) pairs f is called with, in order
RECURSIVE iter_changes(_, _, _)
iter_changes(changes, new_value, stride) ==
    IF changes = ZERO THEN << >>
    ELSE LET stride_mask == 255 \div Pow2(8 - stride)
             right_most_bit == CHOOSE b \in 0..31 :
                                 /\ bit32(changes, b) # 0
                                 /\ \A c \in 0..(b - 1) : bit32(changes, c) = 0
             pin == right_most_bit \div stride
             v == BitAnd(shr32(new_value, pin * stride)[2] % 256, stride_mask)
             rest == iter_changes(and32(changes, shl32(not32(U32(0, stride_mask)), pin * stride)),
                                  new_value, stride)
         IN IF pin <= 16 THEN << [pin |-> pin, v |-> v] >> \o rest ELSE rest

iter_port_reg_changes(old_value, new_value, stride) ==
    iter_changes(xor32(old_value, new_value), new_value, stride)

\* the closure of the ODR and BSRR arms, over the pairs in order
RECURSIVE write_pins(_, _, _, _)
write_pins(s, port, pairs, level) ==
    IF pairs = << >> THEN s
    ELSE write_pins(write_port(s, port, Head(pairs).pin,
                               IF level = None THEN Head(pairs).v # 0 ELSE level[1]),
                    port, Tail(pairs), level)

Gpio_read(s, i, offset) ==
    LET q == s.peripherals[i].peripheral
    IN [s |-> s,
        value |-> CASE offset = U32(0, 0) -> q.mode
                    [] offset = U32(0, 4) -> q.otype
                    [] offset = U32(0, 8) -> q.ospeed
                    [] offset = U32(0, 12) -> q.pupd
                    [] offset = U32(0, 16) -> U32(0, read_port(s, q.port))
                    [] offset = U32(0, 20) -> q.od
                    [] offset = U32(0, 24) -> ZERO
                    [] offset = U32(0, 28) -> q.lck
                    [] offset = U32(0, 32) -> q.afrl
                    [] offset = U32(0, 36) -> q.afrh
                    [] OTHER -> ZERO]

Gpio_write(s, i, offset, value) ==
    LET q == s.peripherals[i].peripheral
    IN CASE offset = U32(0, 0) -> SetPeripheral(s, i, [q EXCEPT !.mode = value])
         [] offset = U32(0, 4) -> SetPeripheral(s, i, [q EXCEPT !.otype = value])
         [] offset = U32(0, 8) -> SetPeripheral(s, i, [q EXCEPT !.ospeed = value])
         [] offset = U32(0, 12) -> SetPeripheral(s, i, [q EXCEPT !.pupd = value])
         [] offset = U32(0, 16) -> s
         [] offset = U32(0, 20) ->
              SetPeripheral(write_pins(s, q.port, iter_port_reg_changes(q.od, value, 1), None),
                            i, [q EXCEPT !.od = value])
         [] offset = U32(0, 24) ->
              LET reset == shr32(value, 16)
                  set == and32(value, U32(0, HALF - 1))
              IN SetPeripheral(
                     write_pins(write_pins(s, q.port, iter_port_reg_changes(ZERO, set, 1),
                                           Some(TRUE)),
                                q.port, iter_port_reg_changes(ZERO, reset, 1), Some(FALSE)),
                     i, [q EXCEPT !.od = or32(and32(q.od, not32(reset)), set)])
         [] offset = U32(0, 28) -> SetPeripheral(s, i, [q EXCEPT !.lck = value])
         [] offset = U32(0, 32) -> SetPeripheral(s, i, [q EXCEPT !.afrl = value])
         [] offset = U32(0, 36) -> SetPeripheral(s, i, [q EXCEPT !.afrh = value])
         [] OTHER -> s

\* ---- dyn Peripheral dispatch, for every peripheral but the DMA controller
Device_read(s, i, offset) ==
    LET kind == s.peripherals[i].peripheral.kind
    IN CASE kind = "NvicWrapper" -> NvicWrapper_read(s, i, offset)
         [] kind = "SysTick" -> SysTick_read(s, i, offset)
         [] kind = "Scb" -> Scb_read(s, i, offset)
         [] kind = "Gpio" -> Gpio_read(s, i, offset)
         [] kind = "Rcc" -> Rcc_read(s, i, offset)
         [] kind = "Spi" -> Spi_read(s, i, offset)

Device_write(s, i, offset, value) ==
    LET kind == s.peripherals[i].peripheral.kind
    IN CASE kind = "NvicWrapper" -> NvicWrapper_write(s, i, offset, value)
         [] kind = "SysTick" -> SysTick_write(s, i, offset, value)
         [] kind = "Scb" -> Scb_write(s, i, offset, value)
         [] kind = "Gpio" -> Gpio_write(s, i, offset, value)
         [] kind = "Rcc" -> Rcc_write(s, i, offset, value)
         [] kind = "Spi" -> Spi_write(s, i, offset, value)

\* ---- DMA (dma.rs)
StreamDefault ==
    [cr |-> ZERO, next_cr |-> None, ndtr |-> ZERO, par |-> ZERO,
     m0ar |-> ZERO, m1ar |-> ZERO, fcr |-> ZERO]

DmaDefault == [kind |-> "Dma", streams |-> [k \in 0..7 |-> StreamDefault]]

\* Access::from_offset
Access_from_offset(offset) ==
    IF lt32(offset, U32(0, 40))
    THEN [reg |-> TRUE, i |-> 0, offset |-> offset]
    ELSE LET o == sub32(offset, U32(0, 16))
         IN [reg |-> FALSE, i |-> (o[1] * HALF + o[2]) \div 24,
             offset |-> U32(0, (o[1] * HALF + o[2]) % 24)]

\* Stream::dir
dir(st) ==
    LET b == and32(shr32(st.cr, 6), U32(0, 3))[2]
    IN CASE b = 0 -> "Read" [] b = 1 -> "Write" [] b = 2 -> "MemCopy" [] OTHER -> "Invalid"

\* every word taken as one byte
word_size_byte(st) == 1

\* Stream::word_size
word_size(st) ==
    LET b == and32(shr32(st.cr, 11), U32(0, 3))[2]
    IN CASE b = 0 -> 1 [] b = 1 -> 2 [] b = 2 -> 4 [] OTHER -> 1

\* Stream::data_size
data_size(st) == word_size(st) * st.ndtr[2]

\* the other memory address register
data_addr_swapped(st) == IF bit32(st.cr, 19) # 0 THEN st.m0ar ELSE st.m1ar

\* Stream::data_addr
data_addr(st) == IF bit32(st.cr, 19) # 0 THEN st.m1ar ELSE st.m0ar

\* Peripheral::read_dma: `size` reads at offset, each truncated to a byte
\* (the loop is unfolded by halves, first half first; a panic ends it)
RECURSIVE read_dma(_, _, _, _)
read_dma(s, j, offset, size) ==
    CASE size = 0 -> [s |-> s, v |-> << >>]
      [] size = 1 -> LET r == Device_read(s, j, offset)
                     IN [s |-> r.s, v |-> << r.value[2] % 256 >>]
      [] OTHER -> LET h == size \div 2
                      a == read_dma(s, j, offset, h)
                      b == read_dma(a.s, j, offset, size - h)
                  IN IF a.s.panic THEN a ELSE [s |-> b.s, v |-> a.v \o b.v]

\* Peripheral::write_dma: one write at offset per byte, in order
\* (the loop is unfolded by halves, first half first; a panic ends it)
RECURSIVE write_dma(_, _, _, _)
write_dma(s, j, offset, value) ==
    CASE Len(value) = 0 -> s
      [] Len(value) = 1 ->
           Device_write(ObserveDma(s, j, offset, U32(0, value[1])), j, offset, U32(0, value[1]))
      [] OTHER -> LET h == Len(value) \div 2
                      a == write_dma(s, j, offset, SubSeq(value, 1, h))
                  IN IF a.panic THEN a
                     ELSE write_dma(a, j, offset, SubSeq(value, h + 1, Len(value)))

\* --------------------------------------------------- peripheral registry
\* Names are kept as sequences of characters so that `==`, starts_with and
\* strip_prefix are computed as in the source.

starts_with(name, prefix) ==
    Len(name) >= Len(prefix) /\ SubSeq(name, 1, Len(prefix)) = prefix

\* X::new(name): None when the name is not X's; panic when Gpio's port letter is bad
NewPeripheral(name) ==
    IF name = << "N", "V", "I", "C" >> THEN [panic |-> FALSE, p |-> Some([kind |-> "NvicWrapper"])]
    ELSE IF name = << "S", "T", "K" >> THEN [panic |-> FALSE, p |-> Some(SysTickDefault)]
    ELSE IF name = << "S", "C", "B" >> THEN [panic |-> FALSE, p |-> Some([kind |-> "Scb"])]
    ELSE IF starts_with(name, << "G", "P", "I", "O" >>)
    THEN IF Len(name) >= 5 /\ \E k \in 1..Len(PortLetters) : PortLetters[k] = name[5]
         THEN [panic |-> FALSE,
               p |-> Some(GpioDefault(name[5],
                          (CHOOSE k \in 1..Len(PortLetters) : PortLetters[k] = name[5]) - 1))]
         ELSE [panic |-> TRUE, p |-> None]
    ELSE IF starts_with(name, << "U", "S", "A", "R", "T" >>) THEN [panic |-> FALSE, p |-> Some([kind |-> "Usart"])]
    ELSE IF starts_with(name, << "F", "S", "M", "C" >>) THEN [panic |-> FALSE, p |-> Some([kind |-> "Fsmc"])]
    ELSE IF name = << "R", "C", "C" >> THEN [panic |-> FALSE, p |-> Some([kind |-> "Rcc"])]
    ELSE IF starts_with(name, << "I", "2", "C" >>) THEN [panic |-> FALSE, p |-> Some([kind |-> "I2c"])]
    ELSE IF starts_with(name, << "D", "M", "A" >>) THEN [panic |-> FALSE, p |-> Some(DmaDefault)]
    ELSE IF starts_with(name, << "S", "P", "I" >>) THEN [panic |-> FALSE, p |-> Some(SpiDefault)]
    ELSE [panic |-> FALSE, p |-> None]

SetMax(S) == CHOOSE m \in S : \A x \in S : x <= m

\* GenericPeripheral::size: registers is the set of register offsets
GenericPeripheral_size(registers) ==
    (IF registers = {} THEN 0 ELSE SetMax(registers)) + 4

FsmcStart == U32(24576, 0)       \* 0x6000_0000
FsmcEnd == U32(40960, 4096)      \* 0xA000_1000

register_peripheral(s, name, base, registers) ==
    LET start == base
        end == add32(base, U32(0, GenericPeripheral_size(registers)))
        dbg == [start |-> start, end |-> end,
                peripheral |-> [name |-> name, registers |-> registers]]
        range == IF name = << "F", "S", "M", "C" >>
                 THEN [start |-> FsmcStart, end |-> FsmcEnd]
                 ELSE [start |-> start, end |-> end]
        n == NewPeripheral(name)
        s1 == [s EXCEPT !.debug_peripherals = Append(@, dbg)]
    IN IF n.panic THEN [s1 EXCEPT !.panic = TRUE]
       ELSE IF n.p # None
       THEN [s1 EXCEPT !.peripherals =
                Append(@, [start |-> range.start, end |-> range.end, peripheral |-> n.p[1]])]
       ELSE s1

\* slice::sort_by_key: a stable sort; keys[j] is the key of items[j]
RECURSIVE sort_keyed(_, _)
sort_keyed(items, keys) ==
    IF items = << >> THEN << >>
    ELSE LET n == Len(items)
             rest == sort_keyed(SubSeq(items, 1, n - 1), SubSeq(keys, 1, n - 1))
             k == Cardinality({j \in 1..(n - 1) : le32(keys[j], keys[n])})
         IN SubSeq(rest, 1, k) \o << items[n] >> \o SubSeq(rest, k + 1, n - 1)

sort_by_start(slots) == sort_keyed(slots, [j \in 1..Len(slots) |-> slots[j].start])

finish_registration(s) ==
    LET d == sort_by_start(s.debug_peripherals)
        q == sort_by_start(s.peripherals)
        ok == \A j \in 1..(Len(d) - 1) : lt32(d[j].end, d[j + 1].start)
    IN [s EXCEPT !.debug_peripherals = d, !.peripherals = q,
                 !.panic = s.panic \/ ~ok]

\* ------------------------------------------------------- address router

\* Vec::binary_search_by_key(&addr, |p| p.start) on the sorted slot list,
\* then map_or_else(|e| e.checked_sub(1), |v| Some(v)); indexes are 1-based here
get_peripheral(peripherals, addr) ==
    LET n == Len(peripherals)
        found == {j \in 1..n : peripherals[j].start = addr}
        e == Cardinality({j \in 1..n : lt32(peripherals[j].start, addr)})
        index == IF found # {} THEN Some(CHOOSE j \in found : TRUE)
                 ELSE IF e >= 1 THEN Some(e) ELSE None
    IN IF index # None /\ le32(addr, peripherals[index[1]].end)
       THEN index ELSE None

\* vec![0; size]
Zeros(size) == [k \in 1..size |-> 0]

\* Stream::do_xfer, called by the DMA controller in slot i, which the router
\* holds mutably borrowed: borrowing it again as the transfer's peripheral
\* panics (BorrowMutError)
do_xfer(s, i, st) ==
    LET d == dir(st)
        size == data_size(st)
        peri == get_peripheral(s.peripherals, st.par)
        src == CASE d = "Write" -> data_addr(st) [] d = "Invalid" -> ZERO [] OTHER -> st.par
        dst == CASE d = "Write" -> st.par [] d = "Invalid" -> ZERO [] OTHER -> data_addr(st)
        offset == IF peri # None THEN sub32(st.par, s.peripherals[peri[1]].start) ELSE ZERO
        rd == mem_read(s.uc, src, size)
        buf == IF rd.ok THEN rd.bytes ELSE Zeros(size)
    IN CASE d = "Read" ->
              IF peri = None
              THEN [s EXCEPT !.uc = mem_write(s.uc, dst, Zeros(size)).uc]
              ELSE IF peri[1] = i THEN [s EXCEPT !.panic = TRUE]
              ELSE LET r == read_dma(s, peri[1], offset, size)
                   IN [r.s EXCEPT !.uc = mem_write(r.s.uc, dst, r.v).uc]
         [] d = "Write" ->
              IF peri = None THEN s
              ELSE IF peri[1] = i THEN [s EXCEPT !.panic = TRUE]
              ELSE write_dma(s, peri[1], offset, buf)
         [] d = "MemCopy" -> [s EXCEPT !.uc = mem_write(s.uc, dst, buf).uc]
         [] OTHER -> s

\* the staged CR taken before the value is read
Stream_read_staged(st, offset) ==
    IF offset = ZERO /\ st.next_cr # None
    THEN [st |-> [st EXCEPT !.cr = st.next_cr[1], !.next_cr = None], value |-> st.next_cr[1]]
    ELSE IF offset = U32(0, 4) THEN [st |-> st, value |-> st.ndtr]
    ELSE [st |-> st, value |-> st.cr]

\* Stream::read
Stream_read(st, offset) ==
    CASE offset = U32(0, 0) ->
           LET st1 == IF st.next_cr # None
                      THEN [st EXCEPT !.cr = st.next_cr[1], !.next_cr = None] ELSE st
               st2 == IF dir(st1) = "Write" /\ data_size(st1) = 0
                      THEN [st1 EXCEPT !.next_cr =
                              Some(U32(st1.cr[1], IF st1.cr[2] % 2 = 0 THEN st1.cr[2] + 1
                                                   ELSE st1.cr[2] - 1))]
                      ELSE st1
           IN [st |-> st2, value |-> st.cr]
      [] offset = U32(0, 4) -> [st |-> st, value |-> st.ndtr]
      [] offset = U32(0, 8) -> [st |-> st, value |-> st.par]
      [] offset = U32(0, 12) -> [st |-> st, value |-> st.m0ar]
      [] offset = U32(0, 16) -> [st |-> st, value |-> st.m1ar]
      [] offset = U32(0, 20) -> [st |-> st, value |-> st.fcr]
      [] OTHER -> [st |-> st, value |-> ZERO]

SetStream(s, i, k, st) == [s EXCEPT !.peripherals[i].peripheral.streams[k] = st]

\* Stream::write of stream k of the controller in slot i
Stream_write(s, i, k, offset, value) ==
    LET st == s.peripherals[i].peripheral.streams[k]
    IN CASE offset = U32(0, 0) ->
              IF value[2] % 2 # 0
              THEN SetStream(do_xfer(SetStream(s, i, k, [st EXCEPT !.cr = value]), i,
                                     [st EXCEPT !.cr = value]),
                             i, k, [st EXCEPT !.cr = value, !.ndtr = ZERO,
                                       !.next_cr = Some(U32(value[1], value[2] - 1))])
              ELSE SetStream(s, i, k, [st EXCEPT !.cr = value])
         [] offset = U32(0, 4) -> SetStream(s, i, k, [st EXCEPT !.ndtr = U32(0, value[2])])
         [] offset = U32(0, 8) -> SetStream(s, i, k, [st EXCEPT !.par = value])
         [] offset = U32(0, 12) -> SetStream(s, i, k, [st EXCEPT !.m0ar = value])
         [] offset = U32(0, 16) -> SetStream(s, i, k, [st EXCEPT !.m1ar = value])
         [] offset = U32(0, 20) -> SetStream(s, i, k, [st EXCEPT !.fcr = value])
         [] OTHER -> s

\* Dma::read; self.streams[i] panics when i is past the eight streams
Dma_read(s, i, offset) ==
    LET a == Access_from_offset(offset)
    IN IF a.reg THEN [s |-> s, value |-> ZERO]
       ELSE IF a.i > 7 THEN [s |-> [s EXCEPT !.panic = TRUE], value |-> ZERO]
       ELSE LET r == Stream_read(s.peripherals[i].peripheral.streams[a.i], a.offset)
            IN [s |-> [s EXCEPT !.peripherals[i].peripheral.streams[a.i] = r.st],
                value |-> r.value]

\* Dma::write
Dma_write(s, i, offset, value) ==
    LET a == Access_from_offset(offset)
    IN IF a.reg THEN s
       ELSE IF a.i > 7 THEN [s EXCEPT !.panic = TRUE]
       ELSE Stream_write(s, i, a.i, a.offset, value)

\* ---- dyn Peripheral dispatch
Peripheral_read(s, i, offset) ==
    IF s.peripherals[i].peripheral.kind = "Dma" THEN Dma_read(s, i, offset)
    ELSE Device_read(s, i, offset)

Peripheral_write(s, i, offset, value) ==
    IF s.peripherals[i].peripheral.kind = "Dma" THEN Dma_write(s, i, offset, value)
    ELSE Device_write(s, i, offset, value)

BitbandStart == U32(16896, 0)    \* 0x4200_0000
BitbandEnd == U32(17408, 0)      \* 0x4400_0000
PeriphBase == U32(16384, 0)      \* 0x4000_0000

bitbanding(addr) ==
    IF le32(BitbandStart, addr) /\ lt32(addr, BitbandEnd)
    THEN LET bit_number == (addr[2] % 32) \div 4
             a == add32(PeriphBase, shr32(sub32(addr, BitbandStart), 5))
         IN Some([addr |-> a, bit_number |-> bit_number])
    ELSE None

is_register(addr) ==
    ~(le32(U32(24576, 0), addr) /\ lt32(addr, U32(40960, 0)))

align_addr_4(addr) ==
    LET byte_offset == addr[2] % 4
    IN [addr |-> sub32(addr, U32(0, byte_offset)), byte_offset |-> byte_offset]

\* Peripherals::read at a bit-band alias: bit bb.bit_number of the byte r read
Peripherals_read_bit(r, bb) ==
    [s |-> r.s, value |-> and32(shr32(r.value, bb.bit_number), U32(0, 1))]

\* Peripherals::read: the value r the peripheral returned, moved to its byte
Peripherals_read_shifted(r, al) == [s |-> r.s, value |-> shl32(r.value, 8 * al.byte_offset)]

\* Peripherals::read of an aligned register; p is get_peripheral's result
Peripherals_read_reg(s, al, size, p) ==
    IF ~(al.byte_offset + size <= 4)
    THEN [s |-> [s EXCEPT !.panic = TRUE], value |-> ZERO]
    ELSE IF p # None
    THEN Peripherals_read_shifted(
             Peripheral_read(ObserveDelegate(s, p[1], al.addr), p[1],
                             sub32(al.addr, s.peripherals[p[1]].start)), al)
    ELSE [s |-> s, value |-> ZERO]

RECURSIVE Peripherals_read(_, _, _)
Peripherals_read(s, addr, size) ==
    LET bb == bitbanding(addr)
        al == IF is_register(addr) THEN align_addr_4(addr)
              ELSE [addr |-> addr, byte_offset |-> 0]
    IN IF bb # None
       THEN Peripherals_read_bit(Peripherals_read(s, bb[1].addr, 1), bb[1])
       ELSE Peripherals_read_reg(s, al, size, get_peripheral(s.peripherals, al.addr))

\* Peripherals::write of an aligned register; r is the read the write began
\* with when it is of a part of the register
Peripherals_write_reg(s, r, al, size, value, p) ==
    IF ~(al.byte_offset + size <= 4) THEN [s EXCEPT !.panic = TRUE]
    ELSE IF r.s.panic THEN r.s
    ELSE IF p # None
    THEN Peripheral_write(
             ObserveDelegate(r.s, p[1], al.addr), p[1],
             sub32(al.addr, r.s.peripherals[p[1]].start),
             IF al.byte_offset # 0
             THEN or32(shl32(value, 8 * al.byte_offset),
                       and32(r.value,
                             shr32(U32(HALF - 1, HALF - 1), 32 - 8 * al.byte_offset)))
             ELSE value)
    ELSE r.s

\* the read a write of a part of a register begins with
Peripherals_write_read(s, al) ==
    IF al.byte_offset # 0 THEN Peripherals_read(s, al.addr, 4) ELSE [s |-> s, value |-> ZERO]

\* Peripherals::write at a bit-band alias: the byte r read, its bit replaced
Peripherals_write_bit(r, bb, value) ==
    or32(and32(r.value, shl32(U32(0, 1), bb.bit_number)),
         shl32(and32(value, U32(0, 1)), bb.bit_number))

RECURSIVE Peripherals_write(_, _, _, _)
RECURSIVE Peripherals_write_byte(_, _, _)
Peripherals_write_byte(r, bb, value) ==
    IF r.s.panic THEN r.s
    ELSE Peripherals_write(r.s, bb.addr, 1, Peripherals_write_bit(r, bb, value))

Peripherals_write_part(s, r, al, size, value) ==
    Peripherals_write_reg(s, r, al, size, value, get_peripheral(r.s.peripherals, al.addr))

Peripherals_write(s, addr, size, value) ==
    LET bb == bitbanding(addr)
        al == IF is_register(addr) THEN align_addr_4(addr)
              ELSE [addr |-> addr, byte_offset |-> 0]
    IN IF bb # None
       THEN Peripherals_write_byte(Peripherals_read(s, bb[1].addr, 1), bb[1], value)
       ELSE Peripherals_write_part(s, Peripherals_write_read(s, al), al, size, value)

\* Peripherals::from_svd: the SVD device is a sequence of records
\* [name, base_address, derived_from, registers]
sort_by_base_address(svd) == sort_keyed(svd, [j \in 1..Len(svd) |-> svd[j].base_address])

\* one iteration of the loop over svd_device.peripherals
register_svd_peripheral(s, d, svd) ==
    IF d.derived_from # None
    THEN LET targets == {j \in 1..Len(svd) : svd[j].name = d.derived_from[1]}
         IN IF targets = {} THEN [s EXCEPT !.panic = TRUE]
            ELSE register_peripheral(s, d.name, d.base_address,
                     svd[CHOOSE j \in targets : TRUE].registers)
    ELSE register_peripheral(s, d.name, d.base_address, d.registers)

RECURSIVE register_each(_, _, _)
register_each(s, todo, svd) ==
    IF todo = << >> \/ s.panic THEN s
    ELSE register_each(register_svd_peripheral(s, Head(todo), svd), Tail(todo), svd)

from_svd(s, svd) ==
    LET sorted == sort_by_base_address(svd)
        s1 == register_each(s, sorted, sorted)
    IN IF s1.panic THEN s1 ELSE finish_registration(s1)

\* the loop over config.software_spi
RECURSIVE register_software_spi(_, _)
register_software_spi(s, configs) ==
    IF configs = << >> \/ s.panic THEN s
    ELSE register_software_spi(SoftwareSpi_register(s, Head(configs)), Tail(configs))

\* Peripherals::from_svd with a peripherals configuration
from_svd_config(s, svd, software_spi) ==
    LET sorted == sort_by_base_address(svd)
        s1 == register_each(s, sorted, sorted)
        s2 == IF s1.panic THEN s1 ELSE register_software_spi(s1, software_spi)
    IN IF s2.panic THEN s2 ELSE finish_registration(s2)

\* ------------------------------------------------------------ the machine

VARIABLES
    uc,                 \* CPU host: registers and RAM
    nvic,               \* Nvic
    panic,              \* a panic!/assert!/expect() has aborted the process
    peripherals,        \* Peripherals.peripherals: the slots MMIO is dispatched on
    debug_peripherals,  \* Peripherals.debug_peripherals
    gpio,               \* Peripherals.gpio: the GPIO callbacks
    ext_devices,        \* System.d: the external devices
    obs,                \* history kept for the properties
    svd,                \* svd_device.peripherals
    todo,               \* position of from_svd's loop in svd
    phase,              \* "start" | "register" | "run" | "stopped"
    at,                 \* "hook": the code hook is due; "insn": the instruction is
    NUM_INSTRUCTIONS,
    LAST_INSTRUCTION,
    BUSY_LOOP_REACHED,
    STOP_REQUESTED,
    args,               \* command line: interrupt_period, busy_loop_stop
    last                \* the last MMIO callback: its arguments and result

vars ==
    << uc, nvic, panic, peripherals, debug_peripherals, gpio, ext_devices, obs, svd, todo,
       phase, at,
       NUM_INSTRUCTIONS, LAST_INSTRUCTION, BUSY_LOOP_REACHED, STOP_REQUESTED, args, last >>

\* the System (uc, p) as the record the operators above work on
Sys ==
    [uc |-> uc, nvic |-> nvic, panic |-> panic, peripherals |-> peripherals,
     debug_peripherals |-> debug_peripherals, gpio |-> gpio,
     d |-> ext_devices, obs |-> obs]

SetSys(s) ==
    /\ uc' = s.uc
    /\ nvic' = s.nvic
    /\ panic' = s.panic
    /\ peripherals' = s.peripherals
    /\ debug_peripherals' = s.debug_peripherals
    /\ gpio' = s.gpio
    /\ ext_devices' = s.d
    /\ obs' = s.obs

RegNames ==
    { "R0", "R1", "R2", "R3", "R12", "LR", "PC", "XPSR", "MSP", "PSP",
      "CONTROL", "PRIMASK", "FPSCR",
      "S0", "S1", "S2", "S3", "S4", "S5", "S6", "S7",
      "S8", "S9", "S10", "S11", "S12", "S13", "S14", "S15" }

\* the stack pointers the firmware uses: the first leaves no room for a frame
StackPool == { U32(RamStart[1], 16), U32(RamStart[1], 128), U32(RamStart[1], 256) }

\* registers after reset: the firmware runs in thread mode on the main stack
ResetRegs ==
    [r \in RegNames |->
        CASE r = "MSP" -> U32(RamStart[1], 128)
          [] r = "PSP" -> U32(RamStart[1], 256)
          [] r = "PC" -> U32(FlashStart[1], 1024)
          [] r = "XPSR" -> U32(256, 0)             \* T bit
          [] OTHER -> ZERO]

\* System before Peripherals::from_svd
SysNew ==
    [uc |-> [regs |-> ResetRegs, mem |-> [o \in {} |-> 0]],
     nvic |-> NvicDefault, panic |-> FALSE,
     peripherals |-> << >>, debug_peripherals |-> << >>,
     gpio |-> GpioPortsDefault, d |-> ExtDevicesDefault, obs |-> ObsInit]

NoAccess ==
    [op |-> "none", addr |-> ZERO, size |-> 0, value |-> ZERO, result |-> ZERO, n |-> 0]

EmulatorInit ==
    /\ at = "hook"
    /\ NUM_INSTRUCTIONS = 0
    /\ LAST_INSTRUCTION = << ZERO, 0 >>
    /\ BUSY_LOOP_REACHED = FALSE
    /\ STOP_REQUESTED = FALSE
    /\ last = NoAccess

EmulatorUnchanged ==
    UNCHANGED << at, NUM_INSTRUCTIONS, LAST_INSTRUCTION, BUSY_LOOP_REACHED,
                 STOP_REQUESTED, args, last >>

\* ---- registration (Peripherals::from_svd), one loop iteration per step

Regs4(n) == { 4 * k : k \in 0..(n - 1) }

Desc(name, base, derived_from, registers) ==
    [name |-> name, base_address |-> base, derived_from |-> derived_from,
     registers |-> registers]

\* the peripheral descriptions SVD files are drawn from
SvdStk == Desc(<< "S", "T", "K" >>, U32(57344, 57360), None, Regs4(4))       \* 0xE000_E010
SvdScb == Desc(<< "S", "C", "B" >>, U32(57344, 60672), None, Regs4(3))       \* 0xE000_ED00
SvdSpi1 == Desc(<< "S", "P", "I", "1" >>, U32(16385, 12288), None, Regs4(4))  \* 0x4001_3000
SvdSpi2 ==
    Desc(<< "S", "P", "I", "2" >>, U32(16384, 14336), Some(<< "S", "P", "I", "1" >>), {})
SvdGpioA == Desc(<< "G", "P", "I", "O", "A" >>, U32(16386, 0), None, Regs4(10)) \* 0x4002_0000
SvdGpioZ == Desc(<< "G", "P", "I", "O", "Z" >>, U32(16386, 1024), None, Regs4(10))
SvdFsmc == Desc(<< "F", "S", "M", "C" >>, U32(40960, 0), None, Regs4(2))      \* 0xA000_0000
\* a modelled peripheral whose registers lie inside the FSMC banks
SvdSpi7 == Desc(<< "S", "P", "I", "7" >>, U32(28672, 0), None, Regs4(4))      \* 0x7000_0000
\* a block that starts inside SPI1's
SvdTim == Desc(<< "T", "I", "M", "1" >>, U32(16385, 12296), None, Regs4(2))   \* 0x4001_3008

SvdPool == { SvdStk, SvdSpi1, SvdSpi2, SvdGpioA, SvdGpioZ, SvdFsmc, SvdSpi7, SvdTim }

MaxSvd == 3

RECURSIVE SeqsOf(_, _)
SeqsOf(S, n) ==
    IF n = 0 THEN { << >> }
    ELSE LET shorter == SeqsOf(S, n - 1)
         IN shorter \cup { Append(q, x) : q \in { r \in shorter : Len(r) = n - 1 },
                                          x \in S }

\* SVD files: sequences of distinct descriptions, in file order
SvdFiles ==
    { f \in SeqsOf(SvdPool, MaxSvd) : \A i, j \in 1..Len(f) : i # j => f[i] # f[j] }

InitReg ==
    /\ svd \in SvdFiles
    /\ todo = 1
    /\ phase = "start"
    /\ uc = SysNew.uc /\ nvic = SysNew.nvic /\ panic = SysNew.panic
    /\ peripherals = SysNew.peripherals
    /\ debug_peripherals = SysNew.debug_peripherals
    /\ gpio = SysNew.gpio /\ ext_devices = SysNew.d
    /\ obs = SysNew.obs
    /\ args = [interrupt_period |-> 1, busy_loop_stop |-> FALSE]
    /\ EmulatorInit

\* svd_device.peripherals.sort_by_key(|f| f.base_address)
SortSvd ==
    /\ phase = "start"
    /\ svd' = sort_by_base_address(svd)
    /\ phase' = "register"
    /\ UNCHANGED << uc, nvic, panic, peripherals, debug_peripherals, gpio,
                    ext_devices, obs, todo >>
    /\ EmulatorUnchanged

\* one iteration of `for p in &svd_device.peripherals`
RegisterPeripheral ==
    /\ phase = "register" /\ ~panic
    /\ todo <= Len(svd)
    /\ SetSys(register_svd_peripheral(Sys, svd[todo], svd))
    /\ todo' = todo + 1
    /\ UNCHANGED << svd, phase >>
    /\ EmulatorUnchanged

FinishRegistration ==
    /\ phase = "register" /\ ~panic
    /\ todo > Len(svd)
    /\ LET s == finish_registration(Sys)
       IN /\ SetSys(s)
          /\ phase' = IF s.panic THEN "register" ELSE "run"
    /\ UNCHANGED << svd, todo >>
    /\ EmulatorUnchanged

NextReg == SortSvd \/ RegisterPeripheral \/ FinishRegistration

SpecReg == InitReg /\ [][NextReg]_vars

\* ---- the board the running system is built from
BoardSvd == << SvdGpioA, SvdScb, SvdSpi1, SvdStk >>

Board == from_svd(SysNew, BoardSvd)

InitBoard ==
    /\ svd = sort_by_base_address(BoardSvd)
    /\ todo = Len(BoardSvd) + 1
    /\ phase = "run"
    /\ uc = Board.uc /\ nvic = Board.nvic /\ panic = Board.panic
    /\ peripherals = Board.peripherals
    /\ debug_peripherals = Board.debug_peripherals
    /\ gpio = Board.gpio /\ ext_devices = Board.d
    /\ obs = Board.obs
    /\ EmulatorInit

\* ---- MMIO callbacks (system.rs bind_peripherals_to_unicorn)

\* read_cb: p.read(&mut sys, start + addr, size as u8)
read_cb(s, addr, size) == Peripherals_read(ObserveBegin(s), addr, size)

\* write_cb: p.write(&mut sys, start + addr, size as u8, value as u32)
write_cb(s, addr, size, value) == Peripherals_write(ObserveBegin(s), addr, size, value)

\* the alias word of bit `bit` of the byte at addr
BitbandAlias(addr, bit) ==
    add32(BitbandStart, add32(shl32(sub32(addr, PeriphBase), 5), U32(0, 4 * bit)))

Spi1Base == SvdSpi1.base_address
GpioABase == SvdGpioA.base_address
StkBase == SvdStk.base_address
ScbBase == SvdScb.base_address

\* number of MMIO accesses a run makes
MaxAccess == 3

Access(addr, size, value) == [addr |-> addr, size |-> size, value |-> value]

\* sub-word accesses to SPI1 CR1: every byte offset with every size, those
\* that cross the word's end included
SubWordAccesses(values) ==
    { Access(add32(Spi1Base, U32(0, off)), size, v) :
        off \in 0..3, size \in {1, 2}, v \in values }

\* the plain stored registers: SPI1 CR1, SysTick LOAD, and GPIOA MODER,
\* OTYPER, OSPEEDR, PUPDR, LCKR, AFRL, AFRH
PlainRegisters ==
    { Spi1Base, add32(StkBase, U32(0, 4)) }
    \cup { add32(GpioABase, U32(0, k)) : k \in {0, 4, 8, 12, 28, 32, 36} }

\* other words: SPI1 DR, the word at SPI1's end and the one after it,
\* SysTick CTRL, and an address below every slot
OtherWords ==
    { add32(Spi1Base, U32(0, k)) : k \in {12, 16, 20} } \cup { StkBase, PeriphBase }

WordAccesses(addrs, values) == { Access(a, 4, v) : a \in addrs, v \in values }

\* accesses through bit-band aliases of SPI1 CR1 and GPIOA MODER
BitbandAccesses(values) ==
    { Access(a, 4, v) :
        a \in { BitbandAlias(Spi1Base, 0), BitbandAlias(Spi1Base, 3),
                BitbandAlias(add32(Spi1Base, U32(0, 1)), 0),
                BitbandAlias(GpioABase, 5) },
        v \in values }

RouterReads ==
    SubWordAccesses({ZERO}) \cup WordAccesses(PlainRegisters \cup OtherWords, {ZERO})
    \cup BitbandAccesses({ZERO})

RouterWrites ==
    SubWordAccesses({ U32(0, 171) })                                      \* 0xAB
    \cup WordAccesses(PlainRegisters,
                      { U32(4660, 22136), U32(HALF - 1, HALF - 1) })      \* 0x1234_5678
    \cup WordAccesses(OtherWords, { U32(0, 7) })
    \cup BitbandAccesses({ ZERO, U32(0, 1) })

MmioRead(addr, size) ==
    /\ phase = "run" /\ ~panic
    /\ last.n < MaxAccess
    /\ LET r == read_cb(Sys, addr, size)
       IN /\ SetSys(r.s)
          /\ last' = [op |-> "read", addr |-> addr, size |-> size,
                      value |-> ZERO, result |-> r.value, n |-> last.n + 1]
    /\ UNCHANGED << svd, todo, phase, at, NUM_INSTRUCTIONS, LAST_INSTRUCTION,
                    BUSY_LOOP_REACHED, STOP_REQUESTED, args >>

MmioWrite(addr, size, value) ==
    /\ phase = "run" /\ ~panic
    /\ last.n < MaxAccess
    /\ SetSys(write_cb(Sys, addr, size, value))
    /\ last' = [op |-> "write", addr |-> addr, size |-> size,
                value |-> value, result |-> ZERO, n |-> last.n + 1]
    /\ UNCHANGED << svd, todo, phase, at, NUM_INSTRUCTIONS, LAST_INSTRUCTION,
                    BUSY_LOOP_REACHED, STOP_REQUESTED, args >>

InitRouter ==
    /\ InitBoard
    /\ args = [interrupt_period |-> 1, busy_loop_stop |-> FALSE]

NextRouter ==
    \/ \E a \in RouterReads : MmioRead(a.addr, a.size)
    \/ \E a \in RouterWrites : MmioWrite(a.addr, a.size, a.value)

SpecRouter == InitRouter /\ [][NextRouter]_vars

\* ---- the emulation: hooks of the CPU host, and the firmware's instructions

\* instructions a run executes
MaxInstr == 3

\* --interrupt-period values a run is started with
MaxPeriod == 2

PUMP_EVENT_INST_INTERVAL == 100000

\* SdlEngine::pump_events with no window: false when a quit event is queued
pump_events(quit) == ~quit

\* the code hook, called by the host before the instruction at PC is executed;
\* `quit` says whether the user has asked to quit
HookTo(quit, next) ==
    /\ phase = "run" /\ ~panic /\ at = "hook"
    /\ LET pc == reg_read(uc, "PC")
           busy == args.busy_loop_stop /\ LAST_INSTRUCTION[1] = pc
           n == NUM_INSTRUCTIONS
           s0 == ObserveBegin(Sys)
           s1 == IF n % args.interrupt_period = 0
                 THEN run_pending_interrupts(s0, n + 1)
                 ELSE s0
           stop == BitAnd(n, PUMP_EVENT_INST_INTERVAL) = 0 /\ ~pump_events(quit)
       IN /\ SetSys(IF s1.panic THEN s1
                    ELSE ObservePump(s1, BitAnd(n, PUMP_EVENT_INST_INTERVAL) = 0))
          /\ LAST_INSTRUCTION' = << pc, 2 >>
          /\ NUM_INSTRUCTIONS' = next
          /\ BUSY_LOOP_REACHED' = (BUSY_LOOP_REACHED \/ busy)
          /\ STOP_REQUESTED' = (STOP_REQUESTED \/ (~s1.panic /\ stop))
          /\ phase' = IF ~s1.panic /\ (busy \/ stop) THEN "stopped" ELSE phase
    /\ at' = "insn"
    /\ UNCHANGED << svd, todo, args, last >>

\* NUM_INSTRUCTIONS.fetch_add(1)
Hook(quit) == HookTo(quit, NUM_INSTRUCTIONS + 1)

\* the hook, for the instructions a run of SpecNvic executes
CodeHook(quit) == NUM_INSTRUCTIONS < MaxInstr /\ Hook(quit)

\* the interrupt hook, called by the host with its exception code.  The host
\* raises EXCP_EXCEPTION_EXIT (8) for a branch to an EXC_RETURN value made in
\* handler mode, that is with IPSR # 0.
\* the hook with the arm for code 3 falling into the default arm
IntrHook_default_arm(exception) ==
    /\ phase = "run" /\ ~panic /\ at = "insn"
    /\ exception = 8 => reg_read(uc, "IPSR") # ZERO
    /\ \E s0 \in { ObserveExcp(ObserveBegin(Sys), exception) } :
         CASE exception = 8 ->
                \E s1 \in { return_from_interrupt(s0) } :
                    /\ SetSys(IF s1.panic THEN s1
                              ELSE run_pending_interrupts(s1, NUM_INSTRUCTIONS))
                    /\ phase' = phase
           [] OTHER -> SetSys(s0) /\ phase' = "exited"
    /\ at' = "hook"
    /\ UNCHANGED << svd, todo, NUM_INSTRUCTIONS, LAST_INSTRUCTION,
                    BUSY_LOOP_REACHED, STOP_REQUESTED, args, last >>

IntrHook(exception) ==
    /\ phase = "run" /\ ~panic /\ at = "insn"
    /\ exception = 8 => reg_read(uc, "IPSR") # ZERO
    /\ \E s0 \in { ObserveExcp(ObserveBegin(Sys), exception) } :
         CASE exception = 8 ->
                \E s1 \in { return_from_interrupt(s0) } :
                    /\ SetSys(IF s1.panic THEN s1
                              ELSE run_pending_interrupts(s1, NUM_INSTRUCTIONS))
                    /\ phase' = phase
           [] exception = 3 -> SetSys(s0) /\ phase' = phase
           [] OTHER -> SetSys(s0) /\ phase' = "exited"
    /\ at' = "hook"
    /\ UNCHANGED << svd, todo, NUM_INSTRUCTIONS, LAST_INSTRUCTION,
                    BUSY_LOOP_REACHED, STOP_REQUESTED, args, last >>

\* exception codes the host raises: exception exit, prefetch abort, undefined instruction
ExceptionCodes == { 8, 3, 1 }

\* Nvic::set_intr_pending is the controller's entry point for the peripheral
\* models; Scb calls it for SysTick and PendSV, and a model of a device with an
\* interrupt line calls it with that line's number
SetIntrPending(irq) ==
    /\ phase = "run" /\ ~panic
    /\ SetSys(set_intr_pending(ObserveBegin(Sys), irq))
    /\ UNCHANGED << svd, todo, phase >>
    /\ EmulatorUnchanged

\* An instruction of the firmware: the host executes it and gives the
\* registers and memory it leaves; the next code hook is then due.
Instruction(uc1) ==
    /\ phase = "run" /\ ~panic /\ at = "insn"
    /\ uc' = uc1
    /\ obs' = ObserveBegin(Sys).obs
    /\ at' = "hook"
    /\ UNCHANGED << nvic, panic, peripherals, debug_peripherals, gpio, ext_devices,
                    svd, todo, phase,
                    NUM_INSTRUCTIONS, LAST_INSTRUCTION, BUSY_LOOP_REACHED,
                    STOP_REQUESTED, args, last >>

NextPc(u) == reg_write(u, "PC", add32(reg_read(u, "PC"), U32(0, 2)))

\* an instruction that changes no register but PC
FirmwareNop == Instruction(NextPc(uc))

\* `b .`
FirmwareBranchSelf == Instruction(uc)

MaxPattern == 1

\* instructions that overwrite the caller-saved registers and the flags
FirmwareClobber(k) ==
    Instruction(NextPc(
        [uc EXCEPT !.regs["R0"] = U32(k, 0), !.regs["R1"] = U32(k, 1),
                   !.regs["R2"] = U32(k, 2), !.regs["R3"] = U32(k, 3),
                   !.regs["R12"] = U32(k, 12),
                   !.regs["XPSR"] = U32(32768 + (@[1] % 32768), @[2])]))

\* `bl` / `mov lr, r`: LR receives a return address, or the EXC_RETURN value
\* of an extended frame on the main stack
LrValues == { U32(FlashStart[1], 1281), U32(HALF - 1, 65513) }        \* 0xFFFF_FFE9

FirmwareSetLr(v) == Instruction(NextPc(reg_write(uc, "LR", v)))

\* `msr PRIMASK, r` / `msr CONTROL, r`
FirmwareMsr(reg, v) == Instruction(NextPc(reg_write(uc, reg, v)))

\* `mov sp, r`
FirmwareSetSp(v) == Instruction(NextPc(reg_write(uc, "SP", v)))

\* `str r, [sp, #4*j]` into mapped RAM
FirmwareStoreStack(j) ==
    LET w == mem_write(uc, add32(reg_read(uc, "SP"), U32(0, 4 * j)),
                       to_le_bytes(U32(57005, 48879)))               \* 0xDEAD_BEEF
    IN w.ok /\ Instruction(NextPc(w.uc))

\* `str` to a peripheral register: the MMIO write callback
FirmwareMmioWrite(addr, size, value) ==
    /\ phase = "run" /\ ~panic /\ at = "insn"
    /\ LET s == write_cb(Sys, addr, size, value)
       IN SetSys([s EXCEPT !.uc = NextPc(s.uc)])
    /\ last' = [op |-> "write", addr |-> addr, size |-> size,
                value |-> value, result |-> ZERO, n |-> last.n]
    /\ at' = "hook"
    /\ UNCHANGED << svd, todo, phase, NUM_INSTRUCTIONS, LAST_INSTRUCTION,
                    BUSY_LOOP_REACHED, STOP_REQUESTED, args >>

\* writes to SCB ICSR (PENDSTSET, PENDSVSET, both), SysTick CTRL and LOAD
NvicWrites ==
    { Access(add32(ScbBase, U32(0, 4)), 4, v) : v \in { U32(1024, 0), U32(4096, 0), U32(5120, 0) } }
    \cup { Access(StkBase, 4, v) : v \in { U32(0, 7), ZERO } }
    \cup { Access(add32(StkBase, U32(0, 4)), 4, U32(0, 1)) }

ControlValues == { ZERO, U32(0, 2), U32(0, 4), U32(0, 6) }

InitNvic ==
    /\ InitBoard
    /\ args \in [interrupt_period : 1..MaxPeriod, busy_loop_stop : BOOLEAN]

NextNvic ==
    \/ \E quit \in BOOLEAN : CodeHook(quit)
    \/ \E e \in ExceptionCodes : IntrHook(e)
    \/ \E irq \in 0..(NumExtIrq - 1) : SetIntrPending(irq)
    \/ FirmwareNop
    \/ FirmwareBranchSelf
    \/ \E k \in 1..MaxPattern : FirmwareClobber(k)
    \/ \E v \in LrValues : FirmwareSetLr(v)
    \/ \E v \in { ZERO, U32(0, 1) } : FirmwareMsr("PRIMASK", v)
    \/ \E v \in ControlValues : FirmwareMsr("CONTROL", v)
    \/ \E v \in StackPool : FirmwareSetSp(v)
    \/ \E j \in { 0, 6 } : FirmwareStoreStack(j)
    \/ \E a \in NvicWrites : FirmwareMmioWrite(a.addr, a.size, a.value)

SpecNvic == InitNvic /\ [][NextNvic]_vars

\* ---- SysTick period (SpecTick): the firmware executes R0 nops, stores R2 to
\* STK.LOAD and 0b111 to STK.CTRL, then executes nops; the SysTick handler is
\* `b .`.  R1 counts the nops left, R12 is the firmware's progress
\* (0: executing the nops, 1: STK.LOAD stored, 2: STK.CTRL stored).

\* instructions a run executes, nops before the stores, reload values
MaxTickInstr == 12
MaxDelay == 3
MaxReload == 5

TickUc(k, r) ==
    [Board.uc EXCEPT !.regs = [@ EXCEPT !["R0"] = U32(0, k), !["R1"] = U32(0, k),
                                        !["R2"] = U32(0, r),
                                        !["R12"] = U32(0, 0)]]

InitTick ==
    /\ svd = sort_by_base_address(BoardSvd)
    /\ todo = Len(BoardSvd) + 1
    /\ phase = "run"
    /\ \E k \in 0..MaxDelay : \E r \in 1..MaxReload : uc = TickUc(k, r)
    /\ nvic = Board.nvic /\ panic = Board.panic
    /\ peripherals = Board.peripherals
    /\ debug_peripherals = Board.debug_peripherals
    /\ gpio = Board.gpio /\ ext_devices = Board.d
    /\ obs = Board.obs
    /\ args = [interrupt_period |-> 1, busy_loop_stop |-> FALSE]
    /\ EmulatorInit

TickHook == NUM_INSTRUCTIONS < MaxTickInstr /\ Hook(FALSE)

TickDelay ==
    /\ ~nvic.in_interrupt /\ uc.regs["R12"] = U32(0, 0) /\ uc.regs["R1"] # ZERO
    /\ Instruction(NextPc([uc EXCEPT !.regs["R1"] = U32(0, @[2] - 1)]))

\* `str r, [STK, #offset]`
TickStore(offset, value, label) ==
    /\ phase = "run" /\ ~panic /\ at = "insn" /\ ~nvic.in_interrupt
    /\ \E s \in { write_cb(Sys, add32(StkBase, U32(0, offset)), 4, value) } :
         SetSys([s EXCEPT !.uc = NextPc([s.uc EXCEPT !.regs["R12"] = U32(0, label)])])
    /\ last' = [op |-> "write", addr |-> add32(StkBase, U32(0, offset)), size |-> 4,
                value |-> value, result |-> ZERO, n |-> last.n]
    /\ at' = "hook"
    /\ UNCHANGED << svd, todo, phase, NUM_INSTRUCTIONS, LAST_INSTRUCTION,
                    BUSY_LOOP_REACHED, STOP_REQUESTED, args >>

TickLoad ==
    /\ uc.regs["R12"] = U32(0, 0) /\ uc.regs["R1"] = ZERO
    /\ TickStore(4, uc.regs["R2"], 1)

TickEnable ==
    /\ uc.regs["R12"] = U32(0, 1)
    /\ TickStore(0, U32(0, 7), 2)

TickIdle ==
    /\ ~nvic.in_interrupt /\ uc.regs["R12"] = U32(0, 2)
    /\ FirmwareNop

TickHandler == nvic.in_interrupt /\ FirmwareBranchSelf

NextTick ==
    \/ TickHook
    \/ TickDelay
    \/ TickLoad
    \/ TickEnable
    \/ TickIdle
    \/ TickHandler

SpecTick == InitTick /\ [][NextTick]_vars

\* ---- a firmware driving one DMA stream: it fills a buffer, programs the
\* ---- stream's registers, enables the stream and reads the registers back

SvdDma2 == Desc(<< "D", "M", "A", "2" >>, U32(16386, 25600), None, Regs4(52))  \* 0x4002_6400

DmaBoardSvd == << SvdDma2, SvdSpi1 >>

DmaBoard == from_svd(SysNew, DmaBoardSvd)

Dma2Base == SvdDma2.base_address

\* the stream the firmware uses, and the address of its register at offset r
DmaStream == 1
StreamReg(r) == add32(Dma2Base, U32(0, 16 + 24 * DmaStream + r))

\* the slot of the DMA controller
DmaSlot == CHOOSE j \in 1..Len(DmaBoard.peripherals) :
               DmaBoard.peripherals[j].peripheral.kind = "Dma"

\* longest buffer the firmware fills with distinct bytes
MaxBuf == 6

\* RAM images: distinct bytes in two buffers, or 256 bytes of 0xAA
RamImages ==
    { [o \in (0..(MaxBuf - 1)) \cup (16..(16 + MaxBuf - 1)) |->
          IF o < 16 THEN o + 1 ELSE 16 * (o - 15) + 1],
      [o \in 0..255 |-> 170] }

\* the values the firmware programs, register by register, in this order:
\* NDTR, PAR, M0AR, M1AR, CR
DmaProgram ==
    << [r |-> 4, values |-> { ZERO, U32(0, 1), U32(0, 3), U32(0, 256) }],
       [r |-> 8, values |-> { U32(Spi1Base[1], Spi1Base[2] + 12), Spi1Base,
                              RamStart, U32(RamStart[1], 2), StreamReg(0),
                              U32(20480, 0) }],                       \* 0x5000_0000
       [r |-> 12, values |-> { RamStart, U32(RamStart[1], 1), U32(RamStart[1], 16),
                               U32(RamStart[1], 4096),
                               U32(RamStart[1], round_up(RamRegionSize, PAGE) - 2),
                               U32(12288, 0) }],                      \* 0x3000_0000
       [r |-> 16, values |-> { RamStart, U32(RamStart[1], 16) }],
       [r |-> 0, values |-> { U32(hi, lo) : hi \in { 0, 8 },
                                              lo \in { 0, 1, 65, 129, 193, 2049, 2113, 2177 } }] >>

InitDma ==
    /\ svd = sort_by_base_address(DmaBoardSvd)
    /\ todo = Len(DmaBoardSvd) + 1
    /\ phase = "run"
    /\ uc = DmaBoard.uc /\ nvic = DmaBoard.nvic /\ panic = DmaBoard.panic
    /\ peripherals = DmaBoard.peripherals
    /\ debug_peripherals = DmaBoard.debug_peripherals
    /\ gpio = DmaBoard.gpio /\ ext_devices = DmaBoard.d
    /\ obs = DmaBoard.obs
    /\ args = [interrupt_period |-> 1, busy_loop_stop |-> FALSE]
    /\ EmulatorInit

\* the firmware's stores filling the buffer
FirmwareFill(image) ==
    /\ phase = "run" /\ ~panic
    /\ last.n = 0 /\ DOMAIN uc.mem = {}
    /\ uc' = [uc EXCEPT !.mem = image]
    /\ UNCHANGED << nvic, panic, peripherals, debug_peripherals, gpio, ext_devices, obs,
                    svd, todo, phase >>
    /\ EmulatorUnchanged

\* the firmware's k-th store to the stream's registers
DmaSetup(value) ==
    /\ phase = "run" /\ ~panic
    /\ last.n < Len(DmaProgram)
    /\ DOMAIN uc.mem # {}
    /\ value \in DmaProgram[last.n + 1].values
    /\ \E addr \in { StreamReg(DmaProgram[last.n + 1].r) } :
         /\ SetSys(write_cb(Sys, addr, 4, value))
         /\ last' = [op |-> "write", addr |-> addr, size |-> 4,
                     value |-> value, result |-> ZERO, n |-> last.n + 1]
    /\ UNCHANGED << svd, todo, phase, at, NUM_INSTRUCTIONS, LAST_INSTRUCTION,
                    BUSY_LOOP_REACHED, STOP_REQUESTED, args >>

\* number of registers the firmware reads back
MaxReadBack == 2

DmaReadBack(r) ==
    /\ phase = "run" /\ ~panic
    /\ last.n >= Len(DmaProgram) /\ last.n < Len(DmaProgram) + MaxReadBack
    /\ \E addr \in { StreamReg(r) } :
       \E res \in { read_cb(Sys, addr, 4) } :
         /\ SetSys(res.s)
         /\ last' = [op |-> "read", addr |-> addr, size |-> 4,
                     value |-> ZERO, result |-> res.value, n |-> last.n + 1]
    /\ UNCHANGED << svd, todo, phase, at, NUM_INSTRUCTIONS, LAST_INSTRUCTION,
                    BUSY_LOOP_REACHED, STOP_REQUESTED, args >>

NextDma ==
    \/ \E image \in RamImages : FirmwareFill(image)
    \/ \E value \in UNION { DmaProgram[k].values : k \in 1..Len(DmaProgram) } : DmaSetup(value)
    \/ \E r \in { 0, 4 } : DmaReadBack(r)

SpecDma == InitDma /\ [][NextDma]_vars

\* ---- the eight streams of a controller (SpecStreams): the firmware stores
\* NDTR, PAR, M0AR and CR, each to a stream of its choice, then loads registers

\* number of registers the firmware loads
MaxStreamLoads == 1

\* the address of register r of stream i
StreamRegOf(i, r) == add32(Dma2Base, U32(0, 16 + 24 * i + r))

\* NDTR = 2, PAR = RAM, M0AR = RAM + 16, CR = memory to memory, bytes, enabled
StreamProgram ==
    << [r |-> 4, value |-> U32(0, 2)],
       [r |-> 8, value |-> RamStart],
       [r |-> 12, value |-> U32(RamStart[1], 16)],
       [r |-> 0, value |-> U32(0, 129)] >>

InitStreams ==
    /\ svd = sort_by_base_address(DmaBoardSvd)
    /\ todo = Len(DmaBoardSvd) + 1
    /\ phase = "run"
    /\ \E image \in { m \in RamImages : MaxBuf - 1 \in DOMAIN m /\ m[0] # m[1] } :
         uc = [DmaBoard.uc EXCEPT !.mem = image]
    /\ nvic = DmaBoard.nvic /\ panic = DmaBoard.panic
    /\ peripherals = DmaBoard.peripherals
    /\ debug_peripherals = DmaBoard.debug_peripherals
    /\ gpio = DmaBoard.gpio /\ ext_devices = DmaBoard.d
    /\ obs = DmaBoard.obs
    /\ args = [interrupt_period |-> 1, busy_loop_stop |-> FALSE]
    /\ EmulatorInit

\* the firmware's next store, to stream i
StreamStore(i) ==
    /\ phase = "run" /\ ~panic
    /\ last.n < Len(StreamProgram)
    /\ \E step \in { StreamProgram[last.n + 1] } :
       \E addr \in { StreamRegOf(i, step.r) } :
         /\ SetSys(write_cb(Sys, addr, 4, step.value))
         /\ last' = [op |-> "write", addr |-> addr, size |-> 4,
                     value |-> step.value, result |-> ZERO, n |-> last.n + 1]
    /\ UNCHANGED << svd, todo, phase, at, NUM_INSTRUCTIONS, LAST_INSTRUCTION,
                    BUSY_LOOP_REACHED, STOP_REQUESTED, args >>

\* a load of register r of stream i
StreamLoad(i, r) ==
    /\ phase = "run" /\ ~panic
    /\ last.n >= Len(StreamProgram) /\ last.n < Len(StreamProgram) + MaxStreamLoads
    /\ \E addr \in { StreamRegOf(i, r) } :
       \E res \in { read_cb(Sys, addr, 4) } :
         /\ SetSys(res.s)
         /\ last' = [op |-> "read", addr |-> addr, size |-> 4,
                     value |-> ZERO, result |-> res.value, n |-> last.n + 1]
    /\ UNCHANGED << svd, todo, phase, at, NUM_INSTRUCTIONS, LAST_INSTRUCTION,
                    BUSY_LOOP_REACHED, STOP_REQUESTED, args >>

NextStreams ==
    \/ \E i \in 0..7 : StreamStore(i)
    \/ \E i \in 0..7 : \E r \in { 4, 8, 12, 16, 20 } : StreamLoad(i, r)

SpecStreams == InitStreams /\ [][NextStreams]_vars

\* ---- a firmware writing the output registers of a GPIO port whose pins two
\* ---- software SPIs are wired to; both take their clock from PA1

\* system.rs prepare: the devices of the configuration, then the peripherals
prepare(devices, svd_device, software_spi) ==
    from_svd_config([SysNew EXCEPT !.d = devices], svd_device, software_spi)

FlashConfig(jedec_id) == [peripheral |-> "SWSPI", jedec_id |-> jedec_id, size |-> 4]

\* the first bytes of the flash's file
FlashFile == << 222, 173, 190 >>

FlashSpiConfig ==
    [name |-> "SWSPI", cs |-> Some(Pin_from_str("A", 0)), clk |-> Pin_from_str("A", 1),
     miso |-> Pin_from_str("A", 2), mosi |-> Pin_from_str("A", 3)]

AuxSpiConfig ==
    [name |-> "AUX", cs |-> None, clk |-> Pin_from_str("A", 1),
     miso |-> Pin_from_str("A", 4), mosi |-> Pin_from_str("A", 15)]

GpioBoardSvd == << SvdGpioA >>

GpioBoard ==
    prepare([ExtDevicesDefault EXCEPT
                !.spi_flashes = << SpiFlashNew(FlashConfig(U32(1, 515)), FlashFile) >>],
            GpioBoardSvd, << FlashSpiConfig, AuxSpiConfig >>)

InitOn(board, boardSvd) ==
    /\ svd = sort_by_base_address(boardSvd)
    /\ todo = Len(boardSvd) + 1
    /\ phase = "run"
    /\ uc = board.uc /\ nvic = board.nvic /\ panic = board.panic
    /\ peripherals = board.peripherals
    /\ debug_peripherals = board.debug_peripherals
    /\ gpio = board.gpio /\ ext_devices = board.d
    /\ obs = board.obs
    /\ args = [interrupt_period |-> 1, busy_loop_stop |-> FALSE]
    /\ EmulatorInit

InitGpio == InitOn(GpioBoard, GpioBoardSvd)

\* number of accesses to the port
MaxGpioAccess == 3

\* the stores of the firmware: ODR (0x14) and BSRR (0x18)
GpioWrites ==
    { Access(add32(GpioABase, U32(0, 20)), 4, v) :
        v \in { ZERO, U32(0, 1), U32(0, 2), U32(0, 8), U32(0, 11), U32(0, 32770),
                U32(1, 0), U32(2, 2), U32(0, HALF - 1) } }
    \cup { Access(add32(GpioABase, U32(0, 24)), 4, v) :
             v \in { U32(0, 2), U32(2, 0), U32(1, 1) } }

\* the loads of the firmware: IDR (0x10) and ODR
GpioReads == { Access(add32(GpioABase, U32(0, o)), 4, ZERO) : o \in { 16, 20 } }

GpioWrite(addr, size, value) ==
    /\ phase = "run" /\ ~panic
    /\ last.n < MaxGpioAccess
    /\ \E s1 \in { write_cb(Sys, addr, size, value) } : SetSys(s1)
    /\ last' = [op |-> "write", addr |-> addr, size |-> size,
                value |-> value, result |-> ZERO, n |-> last.n + 1]
    /\ UNCHANGED << svd, todo, phase, at, NUM_INSTRUCTIONS, LAST_INSTRUCTION,
                    BUSY_LOOP_REACHED, STOP_REQUESTED, args >>

GpioRead(addr, size) ==
    /\ phase = "run" /\ ~panic
    /\ last.n < MaxGpioAccess
    /\ \E r \in { read_cb(Sys, addr, size) } :
         /\ SetSys(r.s)
         /\ last' = [op |-> "read", addr |-> addr, size |-> size,
                     value |-> ZERO, result |-> r.value, n |-> last.n + 1]
    /\ UNCHANGED << svd, todo, phase, at, NUM_INSTRUCTIONS, LAST_INSTRUCTION,
                    BUSY_LOOP_REACHED, STOP_REQUESTED, args >>

NextGpio ==
    \/ \E a \in GpioWrites : GpioWrite(a.addr, a.size, a.value)
    \/ \E a \in GpioReads : GpioRead(a.addr, a.size)

SpecGpio == InitGpio /\ [][NextGpio]_vars

\* ---- a firmware bit-banging a software SPI on port A: it keeps the byte it
\* ---- sends in R0, the number of bits left in R1, the number of frames sent
\* ---- in R2, the bits sampled on MISO in R3, its place in the loop in R12
\* ---- and the number of times it moved the chip select in R12's upper half

TouchConfig(swap_x_y, scale_down) ==
    [peripheral |-> "SWSPI", framebuffer |-> "lcd", flip_x |-> None, flip_y |-> None,
     swap_x_y |-> swap_x_y, scale_down |-> scale_down]

\* the devices wired to the software SPI, one configuration each
SerialDevices ==
    { [ExtDevicesDefault EXCEPT !.spi_flashes = << SpiFlashNew(FlashConfig(j), FlashFile) >>] :
        j \in { U32(1, 515), U32(239, 16408) } }                  \* 0x010203, 0xEF4018
    \cup { [ExtDevicesDefault EXCEPT !.touchscreens = << TouchscreenNew(c, FramebufferNew(240, 320)) >>] :
             c \in { TouchConfig(None, None), TouchConfig(Some(TRUE), Some(2)) } }

SerialBoard(devices) == prepare(devices, GpioBoardSvd, << FlashSpiConfig >>)

InitSerial ==
    \E devices \in SerialDevices :
      \E board \in { SerialBoard(devices) } : InitOn(board, GpioBoardSvd)

\* number of bytes the firmware sends
MaxFrames == 5

\* the bytes the firmware sends to a flash and to a touchscreen
SerialBytes ==
    IF ext_devices.spi_flashes # << >> THEN { 159, 0, 255, 3 } ELSE { 144, 208, 0, 240 }

Idle == 0
Setup == 1
Clock == 2
Sample == 3

FirmwareAt(label) == uc.regs["R12"][2] = label

\* the firmware's instructions between two accesses to the port
FirmwareStep(uc1) ==
    /\ uc' = uc1
    /\ UNCHANGED << nvic, panic, peripherals, debug_peripherals, gpio, ext_devices, obs,
                    svd, todo, phase >>
    /\ EmulatorUnchanged

\* a store to ODR, then the instructions up to the next access
OdrStore(value, uc1) ==
    /\ \E s1 \in { write_cb(Sys, add32(GpioABase, U32(0, 20)), 4, value) } :
         SetSys([s1 EXCEPT !.uc = uc1])
    /\ last' = [op |-> "write", addr |-> add32(GpioABase, U32(0, 20)), size |-> 4,
                value |-> value, result |-> ZERO, n |-> last.n + 1]
    /\ UNCHANGED << svd, todo, phase, at, NUM_INSTRUCTIONS, LAST_INSTRUCTION,
                    BUSY_LOOP_REACHED, STOP_REQUESTED, args >>

SpiBegin(b) ==
    /\ phase = "run" /\ ~panic
    /\ FirmwareAt(Idle) /\ uc.regs["R2"][2] < MaxFrames
    /\ b \in SerialBytes
    /\ FirmwareStep([uc EXCEPT !.regs["R0"] = U32(0, b), !.regs["R1"] = U32(0, 8),
                               !.regs["R3"] = ZERO, !.regs["R12"] = U32(@[1], Setup)])

\* clock low, MOSI the next bit of R0, most significant first
SpiSetup ==
    /\ phase = "run" /\ ~panic
    /\ FirmwareAt(Setup)
    /\ OdrStore(U32(0, 8 * ((uc.regs["R0"][2] \div Pow2(uc.regs["R1"][2] - 1)) % 2)),
                [uc EXCEPT !.regs["R12"] = U32(@[1], Clock)])

\* clock high
SpiClock ==
    /\ phase = "run" /\ ~panic
    /\ FirmwareAt(Clock)
    /\ OdrStore(U32(0, 2 + 8 * ((uc.regs["R0"][2] \div Pow2(uc.regs["R1"][2] - 1)) % 2)),
                [uc EXCEPT !.regs["R12"] = U32(@[1], Sample)])

\* a load from IDR: MISO is PA2
SpiSample ==
    /\ phase = "run" /\ ~panic
    /\ FirmwareAt(Sample)
    /\ \E r \in { read_cb(Sys, add32(GpioABase, U32(0, 16)), 4) } :
         /\ SetSys([r.s EXCEPT
                      !.uc.regs["R3"] = U32(0, ((2 * @[2]) % 256) + bit32(r.value, 2)),
                      !.uc.regs["R1"] = U32(0, @[2] - 1),
                      !.uc.regs["R2"] = IF uc.regs["R1"][2] = 1 THEN U32(0, @[2] + 1) ELSE @,
                      !.uc.regs["R12"] = IF uc.regs["R1"][2] = 1 THEN U32(@[1], Idle)
                                         ELSE U32(@[1], Setup)])
         /\ last' = [op |-> "read", addr |-> add32(GpioABase, U32(0, 16)), size |-> 4,
                     value |-> ZERO, result |-> r.value, n |-> last.n + 1]
    /\ UNCHANGED << svd, todo, phase, at, NUM_INSTRUCTIONS, LAST_INSTRUCTION,
                    BUSY_LOOP_REACHED, STOP_REQUESTED, args >>

\* number of times the firmware moves the chip select
MaxSelect == 2

\* chip select (PA0) raised or lowered, between two bytes or in the middle of
\* the second
SpiSelect(cs) ==
    /\ phase = "run" /\ ~panic
    /\ \/ uc.regs["R12"][2] = Idle
       \/ uc.regs["R12"][2] = Setup /\ uc.regs["R1"][2] = 4 /\ uc.regs["R2"][2] = 1
    /\ uc.regs["R2"][2] < MaxFrames
    /\ uc.regs["R12"][1] < MaxSelect
    /\ gpio.sw_spi[1].cs # (cs = 1)
    /\ OdrStore(U32(0, cs), [uc EXCEPT !.regs["R12"] = U32(@[1] + 1, @[2])])

\* the window's mouse events reaching the framebuffer (sdl_engine.rs pump_events)
TouchEvents ==
    { [kind |-> "MouseButtonUp", x |-> 0, y |-> 0] }
    \cup { [kind |-> k, x |-> pos[1], y |-> pos[2]] :
             k \in { "MouseButtonDown", "MouseMotion" },
             pos \in { << 120, 160 >>, << 239, 319 >>, << 240, 17 >> } }

MouseEvent(event) ==
    /\ phase = "run" /\ ~panic
    /\ FirmwareAt(Idle) /\ uc.regs["R2"][2] < MaxFrames
    /\ ext_devices.touchscreens # << >>
    /\ ext_devices' = [ext_devices EXCEPT !.touchscreens[1].framebuffer = process_event(@, event)]
    /\ ext_devices' # ext_devices
    /\ UNCHANGED << uc, nvic, panic, peripherals, debug_peripherals, gpio, obs,
                    svd, todo, phase >>
    /\ EmulatorUnchanged

NextSerial ==
    \/ \E b \in 0..255 : SpiBegin(b)
    \/ SpiSetup
    \/ SpiClock
    \/ SpiSample
    \/ \E cs \in { 0, 1 } : SpiSelect(cs)
    \/ \E event \in TouchEvents : MouseEvent(event)

SpecSerial == InitSerial /\ [][NextSerial]_vars

\* ---- the display (SpecDisplay): the accesses the FSMC bank hands to its
\* memory-mapped device

\* words a pending region command and another pending command may hold;
\* pixels drawn by one Draw
MaxArgs == 4
MaxOtherArgs == 1
MaxPixels == 4

DisplayConfig(panel, swap) ==
    [peripheral |-> << "F", "S", "M", "C", ".", "B", "A", "N", "K", "1" >>,
     width |-> panel[1], height |-> panel[2],
     cmd_addr_bit |-> U32(0, 16384), swap_bytes |-> swap]

\* the board of SpecDisplay: one display; obs.pixel is the pixel index the
\* last access used, obs.drawn the pixels and words since the last Draw,
\* obs.before the raw framebuffer when that Draw was issued
DisplayBoard(config) ==
    [Board EXCEPT !.d = [displays |-> << DisplayNew(config) >>] @@ @,
                  !.obs = [pixel |-> None, drawn |-> << >>, before |-> None] @@ @]

\* the configurations: panels (width, height) with swap_bytes
DisplayConfigs ==
    { DisplayConfig(<< 2, 2 >>, None), DisplayConfig(<< 1, 2 >>, Some(FALSE)),
      DisplayConfig(<< 1, 2 >>, Some(TRUE)) }

InitDisplay == \E config \in DisplayConfigs : InitOn(DisplayBoard(config), BoardSvd)

\* offsets with the command bit clear and set
CmdAddr == ZERO
DataAddr == U32(0, 16384)

\* words of the firmware: commands (0x12C is 0x2C as u8) and data
CmdWords == { U32(0, 42), U32(0, 43), U32(0, 300), ZERO }
DataWords == { ZERO, U32(0, 1), U32(0, 63488) }

\* a store to the bank's data window
DisplayWrite(addr, value, due, quit) ==
    /\ phase = "run" /\ ~panic
    /\ LET d == ext_devices.displays[1]
       IN /\ (addr = DataAddr /\ d.drawing) => Len(obs.drawn) < MaxPixels
          /\ (addr = DataAddr /\ ~d.drawing /\ d.cmd # None) =>
                Len(d.cmd[1].args) < (IF d.cmd[1].cmd \in { 42, 43 } THEN MaxArgs
                                      ELSE MaxOtherArgs)
          /\ \E r \in { Display_write(d, addr, value, due) } :
               /\ ext_devices' = [ext_devices EXCEPT !.displays[1] = r.d]
               /\ panic' = r.panic
               /\ obs' = [obs EXCEPT
                            !.pixel = r.pixel,
                            !.drawn = IF r.pixel # None
                                      THEN Append(@, [index |-> r.pixel[1], word |-> value[2]])
                                      ELSE IF addr = CmdAddr THEN << >> ELSE @,
                            !.before = IF addr # CmdAddr THEN @
                                       ELSE IF r.d.drawing THEN Some(d.framebuffer_raw)
                                       ELSE None]
               /\ phase' = IF r.redraw /\ ~pump_events(quit) THEN "stopped" ELSE phase
    /\ last' = [op |-> "write", addr |-> addr, size |-> 2, value |-> value,
                result |-> ZERO, n |-> last.n]
    /\ UNCHANGED << uc, nvic, peripherals, debug_peripherals, gpio, svd, todo, at,
                    NUM_INSTRUCTIONS, LAST_INSTRUCTION, BUSY_LOOP_REACHED,
                    STOP_REQUESTED, args >>

\* a load from the bank's data window
DisplayRead(addr) ==
    /\ phase = "run" /\ ~panic
    /\ \E r \in { Display_read(ext_devices.displays[1], addr) } :
         /\ ext_devices' = [ext_devices EXCEPT !.displays[1] = r.d]
         /\ last' = [op |-> "read", addr |-> addr, size |-> 2, value |-> ZERO,
                     result |-> r.value, n |-> last.n]
    /\ obs' = [obs EXCEPT !.pixel = None, !.drawn = << >>, !.before = None]
    /\ UNCHANGED << uc, nvic, panic, peripherals, debug_peripherals, gpio, svd, todo,
                    phase, at, NUM_INSTRUCTIONS, LAST_INSTRUCTION, BUSY_LOOP_REACHED,
                    STOP_REQUESTED, args >>

NextDisplay ==
    \/ \E value \in CmdWords : DisplayWrite(CmdAddr, value, FALSE, FALSE)
    \/ \E value \in DataWords :
          \E due, quit \in (IF ext_devices.displays[1].drawing THEN BOOLEAN ELSE { FALSE }) :
             DisplayWrite(DataAddr, value, due, quit)
    \/ \E addr \in { CmdAddr, DataAddr } : DisplayRead(addr)

SpecDisplay == InitDisplay /\ [][NextDisplay]_vars

\* ------------------------------------------------------------ properties

\* ---- interrupt controller (SpecNvic)

\* C1: no interrupt is dispatched while in_interrupt is true, and at most one
\* context frame is pushed and not yet popped, in every reachable state.
NoNestedDispatch ==
    /\ obs.frames <= 1
    /\ obs.dispatch # None => ~obs.dispatch[1].nested

\* a periodic check has just run inside a handler with an IRQ pending and
\* PRIMASK = 0, and dispatched nothing
CheckInsideHandler ==
    /\ at = "insn" /\ ~panic
    /\ (NUM_INSTRUCTIONS - 1) % args.interrupt_period = 0
    /\ nvic.in_interrupt /\ nvic.pending # {}
    /\ reg_read(uc, "PRIMASK") = ZERO
    /\ obs.frames = 1 /\ ~obs.fresh

\* the registers of the basic frame, from its lowest address up
FrameRegs == << "R0", "R1", "R2", "R3", "R12", "LR", "PC", "XPSR" >>

\* the 8 words of u's memory in [S-32, S), lowest address first
FrameWords(u, S) ==
    [i \in 1..8 |->
        from_le_bytes(mem_read(u, add32(sub32(S, U32(0, 32)), U32(0, 4 * (i - 1))), 4).bytes)]

SavedWords(regs) == [i \in 1..8 |-> regs[FrameRegs[i]]]

\* a dispatch made with PRIMASK = 0, in_interrupt false and CONTROL.FPCA = 0
BasicDispatch(d) == d.primask = ZERO /\ ~d.nested /\ ~d.fpca

DispatchStoresFrame ==
    (obs.fresh /\ BasicDispatch(obs.dispatch[1])) =>
        LET d == obs.dispatch[1]
        IN /\ FrameWords(uc, d.sp) = SavedWords(d.regs)
           /\ reg_read(uc, "SP") = sub32(d.sp, U32(0, 32))

\* an exception return that answers a basic dispatch
BasicReturn == obs.ret # None /\ obs.ret[1].dispatch # None /\ BasicDispatch(obs.ret[1].dispatch[1])

\* when the return begins, SP and the frame are as the dispatch left them
HandlerLeftFrame(r) ==
    LET d == r.dispatch[1]
    IN /\ reg_read(r.at_entry, "SP") = sub32(d.sp, U32(0, 32))
       /\ FrameWords(r.at_entry, d.sp) = SavedWords(d.regs)

\* when the return begins, CONTROL.SPSEL is as at the dispatch
HandlerLeftSpsel(r) ==
    spsel_of(reg_read(r.at_entry, "CONTROL")) = r.dispatch[1].spsel

\* when the return begins, LR holds the EXC_RETURN value of the dispatch, or
\* LR holds no EXC_RETURN value and CONTROL.FPCA is as at the dispatch
HandlerLeftLr(r) ==
    LET d == r.dispatch[1]
        lr == reg_read(r.at_entry, "LR")
    IN \/ lr = exc_return(d.spsel, d.fpca)
       \/ /\ and32(lr, U32(HALF - 1, 65280)) # U32(HALF - 1, 65280)
          /\ fpca_of(reg_read(r.at_entry, "CONTROL")) = d.fpca

Restored(r) ==
    LET d == r.dispatch[1]
    IN /\ reg_read(r.at_exit, "SP") = d.sp
       /\ \A i \in 1..8 : r.at_exit.regs[FrameRegs[i]] = d.regs[FrameRegs[i]]

\* C2 as claimed: a basic dispatch stores XPSR, PC, LR, R12, R3, R2, R1, R0 from
\* high to low address into [S-32, S) and sets SP = S-32; the exception return
\* that follows, the handler having left SP and the frame untouched, restores
\* SP = S and R0-R3, R12, LR, PC, XPSR.
SaveRestoreAsClaimed ==
    /\ DispatchStoresFrame
    /\ (BasicReturn /\ HandlerLeftFrame(obs.ret[1])) => Restored(obs.ret[1])

\* C2 amended: the same, for a handler that has also left CONTROL.SPSEL
\* untouched and returns with LR holding the EXC_RETURN value the dispatch
\* set, or with LR holding no EXC_RETURN value and CONTROL.FPCA untouched.
SaveRestore ==
    /\ DispatchStoresFrame
    /\ (/\ BasicReturn
        /\ HandlerLeftFrame(obs.ret[1])
        /\ HandlerLeftSpsel(obs.ret[1])
        /\ HandlerLeftLr(obs.ret[1])) => Restored(obs.ret[1])

\* a handler that overwrote R0 has returned and the registers are restored
ReturnedFromClobberingHandler ==
    /\ BasicReturn
    /\ HandlerLeftFrame(obs.ret[1])
    /\ HandlerLeftSpsel(obs.ret[1])
    /\ HandlerLeftLr(obs.ret[1])
    /\ obs.ret[1].at_entry.regs["R0"] # obs.ret[1].dispatch[1].regs["R0"]
    /\ Restored(obs.ret[1])

\* C3: the IRQ dispatched is the pending one of smallest index, its pending bit
\* is cleared and every other pending bit stays set.
LowestPendingFirst ==
    obs.fresh =>
        LET before == obs.sched[1]
            bit == IRQ_OFFSET + obs.dispatch[1].irq
        IN /\ bit \in before
           /\ \A b \in before : bit <= b
           /\ nvic.pending = before \ {bit}

\* PendSV is dispatched with SysTick and an external IRQ pending too
DispatchAmongSeveral ==
    /\ obs.fresh
    /\ obs.dispatch[1].irq = PENDSV
    /\ { IRQ_OFFSET + SYSTICK, IRQ_OFFSET } \subseteq obs.sched[1]
    /\ { IRQ_OFFSET + SYSTICK, IRQ_OFFSET } \subseteq nvic.pending

\* ---- registration (SpecReg)

\* C4: after registration has finished without a fatal error, the slots MMIO is
\* dispatched on are pairwise disjoint: p.end < q.start whenever
\* p.start < q.start, the FSMC slot [0x6000_0000, 0xA000_1000) included.
DispatchSlotsDisjoint ==
    (phase = "run" /\ ~panic) =>
        \A i, j \in 1..Len(peripherals) :
            lt32(peripherals[i].start, peripherals[j].start)
                => lt32(peripherals[i].end, peripherals[j].start)

\* ---- address router (SpecRouter)

Mask(size) == IF size = 4 THEN U32(HALF - 1, HALF - 1) ELSE U32(0, Pow2(8 * size) - 1)

WordOf(addr) == align_addr_4(addr).addr
OffsetOf(addr) == align_addr_4(addr).byte_offset

\* the 32-bit value the peripheral holds for the register at word address a
read_word(s, a) ==
    LET p == get_peripheral(s.peripherals, a)
    IN IF p = None THEN ZERO
       ELSE Peripheral_read(s, p[1], sub32(a, s.peripherals[p[1]].start)).value

\* the step is an MMIO access
Accessed == last'.n = last.n + 1 /\ ~panic'

\* C5: writing v in {0,1} through a bit-band alias of a plain stored register
\* and then reading through the same alias returns v.
BitbandRoundTrip ==
    (/\ last.op = "write" /\ ~panic
     /\ bitbanding(last.addr) # None
     /\ WordOf(bitbanding(last.addr)[1].addr) \in PlainRegisters)
        => Peripherals_read(Sys, last.addr, last.size).value = and32(last.value, U32(0, 1))

\* bit k of word w set to b
WithBit(w, k, b) ==
    or32(and32(w, not32(shl32(U32(0, 1), k))), shl32(U32(0, b), k))

\* C6: a write through a bit-band alias changes only the addressed bit of the
\* base-region register; every other bit keeps its value.
BitbandWriteFrame ==
    [][(Accessed /\ last'.op = "write" /\ bitbanding(last'.addr) # None)
         => LET bb == bitbanding(last'.addr)[1]
                k == 8 * OffsetOf(bb.addr) + bb.bit_number
            IN read_word(Sys', WordOf(bb.addr))
                 = WithBit(read_word(Sys, WordOf(bb.addr)), k, last'.value[2] % 2)]_vars

\* a register-space access that stays inside its word
SubWordAccess(a) ==
    /\ bitbanding(a.addr) = None /\ is_register(a.addr)
    /\ a.size \in {1, 2, 4}
    /\ OffsetOf(a.addr) + a.size <= 4

\* C7: a register-space read of size 1, 2 or 4 inside a word returns
\* (read_word(addr & ~3) >> 8*(addr & 3)) & mask(size).
ReadAlignmentLaw ==
    [][(Accessed /\ last'.op = "read" /\ SubWordAccess(last'))
         => last'.result =
              and32(shr32(read_word(Sys, WordOf(last'.addr)), 8 * OffsetOf(last'.addr)),
                    Mask(last'.size))]_vars

\* word w with the low `size` bytes of v put in at byte offset off
Merged(w, v, off, size) ==
    or32(and32(w, not32(shl32(Mask(size), 8 * off))),
         shl32(and32(v, Mask(size)), 8 * off))

\* C8: a register-space write of size < 4 at base+off changes only bytes
\* off .. off+size-1 of the register at base, also when off = 0.
SubWordWriteFrame ==
    [][(/\ Accessed /\ last'.op = "write" /\ SubWordAccess(last') /\ last'.size < 4
        /\ WordOf(last'.addr) = Spi1Base)
         => read_word(Sys', Spi1Base)
              = Merged(read_word(Sys, Spi1Base), last'.value,
                       OffsetOf(last'.addr), last'.size)]_vars

\* C9: for the plain shadow registers, a 32-bit write of v through the router
\* followed by a read returns v, after any prior sequence of accesses.
ShadowRoundTrip ==
    (last.op = "write" /\ ~panic /\ last.size = 4 /\ last.addr \in PlainRegisters)
        => Peripherals_read(Sys, last.addr, 4).value = last.value

\* a plain register has been written with 0x1234_5678 as the last of
\* MaxAccess accesses and reads back that value
ShadowWritten(a) ==
    /\ last.op = "write" /\ ~panic /\ last.size = 4 /\ last.addr = a
    /\ last.n = MaxAccess
    /\ last.value = U32(4660, 22136)
    /\ Peripherals_read(Sys, a, 4).value = U32(4660, 22136)

ShadowRoundTripSeen == ShadowWritten(Spi1Base)

\* C10: an access is delegated to a slot only if its address lies in
\* [slot.start, slot.end), end = start + register block size, with offset
\* address - start; at an address in no slot a read returns 0 and a write
\* changes no peripheral state.
InBlock(q, a) == le32(q.start, a) /\ lt32(a, q.end)

DelegatedInsideBlock ==
    [][(Accessed /\ bitbanding(last'.addr) = None)
         => LET a == WordOf(last'.addr)
            IN /\ obs'.route # None =>
                    LET r == obs'.route[1]
                        q == peripherals[r.slot]
                    IN /\ InBlock(q, r.addr)
                       /\ r.offset = sub32(r.addr, q.start)
                       /\ \E j \in 1..Len(debug_peripherals) :
                            /\ debug_peripherals[j].start = q.start
                            /\ q.end = add32(q.start,
                                 U32(0, GenericPeripheral_size(
                                          debug_peripherals[j].peripheral.registers)))
               /\ (\A j \in 1..Len(peripherals) : ~InBlock(peripherals[j], a))
                    => /\ last'.op = "read" => last'.result = ZERO
                       /\ peripherals' = peripherals /\ nvic' = nvic]_vars

\* ---- DMA transfers (SpecDma)

\* the step is the store to the stream's CR with the enable bit set
EnablingWrite ==
    /\ last'.n = last.n + 1 /\ last'.op = "write"
    /\ last'.addr = StreamReg(0) /\ last'.value[2] % 2 = 1

\* the stream as that store finds it, CR being the value stored
StreamAtWrite ==
    [peripherals[DmaSlot].peripheral.streams[DmaStream] EXCEPT !.cr = last'.value]

\* the slot PAR lies in
Sink == get_peripheral(peripherals, StreamAtWrite.par)

\* the N = NDTR bytes memory holds at addr
Holds(addr) == mem_read(uc, addr, StreamAtWrite.ndtr[2])

\* the step handed exactly these bytes, in this order, to the sink at PAR - sink.start
Delivered(bytes) ==
    \E b \in { bytes } :
    \E j \in { Sink[1] } :
    \E offset \in { sub32(StreamAtWrite.par, peripherals[j].start) } :
        obs'.dma = [k \in 1..Len(b) |-> [slot |-> j, offset |-> offset, value |-> U32(0, b[k])]]

NdtrReadsZero ==
    Stream_read(peripherals'[DmaSlot].peripheral.streams[DmaStream], U32(0, 4)).value = ZERO

MemToPeriphByBytes ==
    /\ EnablingWrite
    /\ dir(StreamAtWrite) = "Write" /\ word_size(StreamAtWrite) = 1
    /\ Sink # None
    /\ Holds(StreamAtWrite.m0ar).ok

GpioASlot == CHOOSE j \in 1..Len(GpioBoard.peripherals) :
                 GpioBoard.peripherals[j].peripheral.kind = "Gpio"

\* the step is a word store of the firmware to ODR
OdrWrite ==
    /\ last'.n = last.n + 1 /\ last'.op = "write" /\ ~panic'
    /\ last'.addr = add32(GpioABase, U32(0, 20)) /\ last'.size = 4

\* the places in the step's call list at which write-callback c of the port was invoked
Invocations(port, c) ==
    { n \in 1..Len(obs'.calls) :
        /\ obs'.calls[n].kind = "cb" /\ obs'.calls[n].port = port /\ obs'.calls[n].c = c }

\* C12: an ODR write whose value differs from the stored ODR in bit k (k in
\* 0..15) invokes every write-callback registered for pin k of that port
\* exactly once, with the new bit value, and no callback of a pin whose bit
\* did not change.
OdrFanOut ==
    [][OdrWrite =>
         LET q == peripherals[GpioASlot].peripheral
             cbs == gpio.write_callbacks[q.port]
         IN /\ \A c \in 1..Len(cbs) :
                 LET k == cbs[c].pin
                 IN IF bit32(q.od, k) # bit32(last'.value, k)
                    THEN /\ Cardinality(Invocations(q.port, c)) = 1
                         /\ \A n \in Invocations(q.port, c) :
                              /\ obs'.calls[n].pin = k
                              /\ obs'.calls[n].value = (bit32(last'.value, k) = 1)
                    ELSE Invocations(q.port, c) = {}
            /\ \A n \in 1..Len(obs'.calls) :
                 obs'.calls[n].kind = "cb" => obs'.calls[n].port = q.port]_vars

\* an ODR write raised PA1 and PA15 and left PA0 and PA3 alone: both clock
\* callbacks and the MOSI callback of PA15 were invoked, no other
OdrFanOutSeen ==
    /\ ~panic /\ last.op = "write" /\ last.addr = add32(GpioABase, U32(0, 20))
    /\ last.value = U32(0, 32770)
    /\ peripherals[GpioASlot].peripheral.od = U32(0, 32770)
    /\ Cardinality({ n \in 1..Len(obs.calls) :
                       obs.calls[n].kind = "cb" /\ obs.calls[n].pin = 1 /\ obs.calls[n].value }) = 2
    /\ Cardinality({ n \in 1..Len(obs.calls) : obs.calls[n].kind = "cb" }) = 3

\* ---- software SPI frames (SpecSerial)

\* the places in the step's call list of the frames that ended and of the
\* calls made to devices
Frames == { n \in 1..Len(obs.calls) : obs.calls[n].kind = "frame" }

DeviceCalls == { n \in 1..Len(obs.calls) : obs.calls[n].kind \in { "write", "read" } }

\* the byte of eight levels, first level the most significant bit, and back
ByteOf(levels) ==
    SetSum({ Pow2(8 - i) : i \in { i \in 1..8 : levels[i] } })

LevelsOf(byte) == [i \in 1..8 |-> (byte \div Pow2(8 - i)) % 2 = 1]

\* C13: with CS low and bit_index 0, after 8 CLK rising edges with MOSI
\* levels m7..m0 the bound device receives exactly one write of the byte
\* m7..m0 followed by exactly one read; the byte that read returns is
\* presented on MISO most significant bit first, one bit per rising edge, over
\* the next 8 rising edges; no device call happens on any other edge.
SpiByteFrame ==
    ~panic =>
      /\ \A n \in Frames :
           LET f == obs.calls[n]
               dev == gpio.sw_spi[f.spi].ext_device
           IN /\ Len(f.mosi) = 8
              /\ dev # None =>
                   /\ n >= 3
                   /\ obs.calls[n - 2] = [kind |-> "write", dev |-> dev[1],
                                          value |-> ByteOf(f.mosi)]
                   /\ obs.calls[n - 1].kind = "read" /\ obs.calls[n - 1].dev = dev[1]
              /\ f.prev # None => f.miso = LevelsOf(f.prev[1])
      /\ Cardinality(DeviceCalls) = 2 * Cardinality(Frames)
      /\ \A k \in 1..Len(gpio.sw_spi) :
           /\ Len(obs.spi[k].mosi) = gpio.sw_spi[k].bit_index
           /\ (obs.spi[k].prev # None /\ gpio.sw_spi[k].bit_index = 0)
                => gpio.sw_spi[k].data_miso = obs.spi[k].prev[1]

\* a frame ended that carried the byte 0xFF to the device while the byte 0x01
\* the device had returned before went out on MISO
SpiByteFrameSeen ==
    /\ ~panic
    /\ \E n \in Frames :
         /\ obs.calls[n].prev = Some(1)
         /\ obs.calls[n].miso = << FALSE, FALSE, FALSE, FALSE, FALSE, FALSE, FALSE, TRUE >>
         /\ obs.calls[n - 2].kind = "write" /\ obs.calls[n - 2].value = 255
    /\ ext_devices.spi_flashes # << >>
    /\ ext_devices.spi_flashes[1].reply = Some([kind |-> "Data", d |-> << 3 >>])

\* the reads of a flash since a 0x9F byte it took as a new command, no other
\* byte than 0x00 and 0xFF written to it in between
JedecReadCalls ==
    { n \in 1..Len(obs.calls) :
        /\ obs.calls[n].kind = "read" /\ obs.calls[n].dev.list = "spi_flashes"
        /\ obs.calls[n].since # None
        /\ obs.calls[n].since[1].byte = 159 /\ obs.calls[n].since[1].fresh }

\* C17: after byte 0x9F is written to an SPI flash with jedec_id = J while no
\* command is being accumulated, the k-th read since returns the k-th byte of
\* J as a big-endian 32-bit value (0x00, 0x01, 0x02, 0x03 for J = 0x010203),
\* also when idle bytes 0x00/0xFF are written between the reads, and 0 once
\* the four bytes are consumed.
JedecReply ==
    \A n \in JedecReadCalls :
      LET c == obs.calls[n]
          k == c.since[1].n
          J == ext_devices.spi_flashes[c.dev.j].config.jedec_id
      IN /\ c.value = IF k <= 4 THEN to_be_bytes(J)[k] ELSE 0
         /\ (J = U32(1, 515) /\ k <= 4) => c.value = k - 1

\* the fourth read after 0x9F returned 0x03 of J = 0x010203, an idle 0x00
\* written just before it
JedecReplySeen ==
    \E n \in JedecReadCalls :
      /\ obs.calls[n].since[1].n = 4 /\ obs.calls[n].value = 3
      /\ ext_devices.spi_flashes[obs.calls[n].dev.j].config.jedec_id = U32(1, 515)
      /\ n > 1 /\ obs.calls[n - 1].kind = "write" /\ obs.calls[n - 1].value = 0

\* the reads of a touchscreen without flip, swap or scale_down since a
\* MeasureX or MeasureY command byte written while the touch was inside the
\* framebuffer
MeasureReadCalls ==
    { n \in 1..Len(obs.calls) :
        /\ obs.calls[n].kind = "read" /\ obs.calls[n].dev.list = "touchscreens"
        /\ obs.calls[n].since # None
        /\ (obs.calls[n].since[1].byte \div 16) \in { 9, 13 }
        /\ obs.calls[n].since[1].pos # None
        /\ LET ts == ext_devices.touchscreens[obs.calls[n].dev.j]
               pos == obs.calls[n].since[1].pos[1]
           IN /\ pos[1] < ts.framebuffer.config.width
              /\ pos[2] < ts.framebuffer.config.height
              /\ ts.config.flip_x = None /\ ts.config.flip_y = None
              /\ ts.config.swap_x_y = None /\ ts.config.scale_down = None }

\* C19: with a touch position (x, y) inside a WxH framebuffer and no flip,
\* swap or scale_down configured, writing a MeasureX (resp. MeasureY) command
\* byte makes the next two reads return ((v>>4) & 0xFF, (v<<4) & 0xFF) with
\* v = x*0xFFF/W (resp. y*0xFFF/H) in integer arithmetic, so 0 <= v <= 0xFFF;
\* position (120,160) on 240x320 gives (0x7F, 0xF0) for both 0x90 and 0xD0,
\* and further reads return 0.
MeasureReply ==
    \A n \in MeasureReadCalls :
      LET c == obs.calls[n]
          k == c.since[1].n
          fb == ext_devices.touchscreens[c.dev.j].framebuffer.config
          pos == c.since[1].pos[1]
          v == IF c.since[1].byte \div 16 = 13
               THEN (pos[1] * 4095) \div fb.width
               ELSE (pos[2] * 4095) \div fb.height
      IN /\ 0 <= v /\ v <= 4095
         /\ c.value = CASE k = 1 -> (v \div 16) % 256
                         [] k = 2 -> (v * 16) % 256
                         [] OTHER -> 0
         /\ (pos = << 120, 160 >> /\ fb.width = 240 /\ fb.height = 320 /\ k <= 2)
              => c.value = << 127, 240 >>[k]

\* the second read after 0xD0 with the touch at (120, 160) returned 0xF0
MeasureReplySeen ==
    \E n \in MeasureReadCalls :
      /\ obs.calls[n].since[1].byte = 208 /\ obs.calls[n].since[1].n = 2
      /\ obs.calls[n].since[1].pos = Some(<< 120, 160 >>)
      /\ obs.calls[n].value = 240

\* ---- DMA memory to memory (SpecDma)

\* the destination the claim names: M1AR if CR bit 19 is set, else M0AR
CopyTarget(st) == IF bit32(st.cr, 19) # 0 THEN st.m1ar ELSE st.m0ar

\* word_size * NDTR, word_size from CR bits 11..12
CopySize(st) ==
    st.ndtr[2] * (CASE (st.cr[2] \div 2048) % 4 = 1 -> 2
                    [] (st.cr[2] \div 2048) % 4 = 2 -> 4
                    [] OTHER -> 1)

\* direction memory->memory, the source range and the destination range
\* both in memory
MemToMem(st, dst, size) ==
    /\ (st.cr[2] \div 64) % 4 = 2
    /\ mem_read(uc, st.par, size).ok
    /\ \A i \in 0..(size - 1) : InRam(add32(dst, U32(0, i)))

\* C20: a CR write with enable = 1 and direction = memory->memory copies
\* size = word_size * NDTR bytes from memory at PAR to memory at M1AR if CR
\* bit 19 is set, else M0AR, preserving byte order and writing nothing
\* outside the destination range; with 256 bytes of 0xAA at 0x2000_0000,
\* PAR = 0x2000_0000, M0AR = 0x2000_1000 and NDTR = 256 the range
\* [0x2000_1000, 0x2000_1100) ends up holding 256 copies of 0xAA.
DmaMemToMem ==
    [][EnablingWrite =>
         \E st \in { StreamAtWrite } :
         \E size \in { CopySize(st) } :
         \E dst \in { CopyTarget(st) } :
           MemToMem(st, dst, size) =>
             \E src \in { mem_read(uc, st.par, size).bytes } :
             \E target \in { { add32(dst, U32(0, i))[2] : i \in 0..(size - 1) } } :
               /\ ~panic'
               /\ mem_read(uc', dst, size).bytes = src
               /\ \A o \in (DOMAIN uc'.mem) \ target :
                    o \in DOMAIN uc.mem /\ uc'.mem[o] = uc.mem[o]
               /\ ( /\ st.par = RamStart /\ dst = U32(RamStart[1], 4096)
                    /\ size = 256 /\ \A o \in 0..255 : MemByte(uc, U32(RamStart[1], o)) = 170 )
                  => \A o \in 4096..4351 : MemByte(uc', U32(RamStart[1], o)) = 170]_vars

\* 256 bytes of 0xAA went from 0x2000_0000 to 0x2000_1000 and nowhere else
DmaCopied256 ==
    LET st == peripherals[DmaSlot].peripheral.streams[DmaStream]
    IN /\ ~panic /\ last.op = "write" /\ last.addr = StreamReg(0)
       /\ last.value = U32(0, 129)
       /\ st.par = RamStart /\ st.m0ar = U32(RamStart[1], 4096)
       /\ DOMAIN uc.mem = (0..255) \cup (4096..4351)
       /\ \A o \in DOMAIN uc.mem : uc.mem[o] = 170

\* ---- exception number at entry (SpecNvic)

\* C16: on entry to the handler of IRQ irq, the IPSR field holds the
\* exception number irq + 16 (15 for SysTick, 14 for PendSV).
IpsrAtEntry ==
    (obs.fresh /\ ~panic) =>
        reg_read(uc, "IPSR") = U32(0, IRQ_OFFSET + obs.dispatch[1].irq)

\* ---- SysTick period (SpecTick)

\* the instruction count at which the firmware's store to STK.CTRL executes,
\* and the count at which the code first enters the SysTick vector
EnablingCount == uc.regs["R0"][2] + 2
FirstTickCount ==
    IF uc.regs["R2"][2] + 1 > EnablingCount + 1
    THEN uc.regs["R2"][2] + 1
    ELSE EnablingCount + 1

\* C15 (as stated): after firmware writes STK.LOAD = R and STK.CTRL = 0b111
\* (PRIMASK = 0, interrupt_period = 1), the SysTick vector is entered for the
\* first time when the (R+1)-th instruction after the enabling write is
\* reached, not earlier, and exactly once up to that point, whatever the
\* instruction count at which SysTick was enabled.
TickFirstEntry ==
    (phase = "run" /\ ~panic /\ at = "insn" /\ uc.regs["R12"] = U32(0, 2)) =>
        (nvic.in_interrupt <=> NUM_INSTRUCTIONS >= EnablingCount + uc.regs["R2"][2] + 1)

\* C15 (amended): the period is counted from the start of the emulation, not
\* from the enabling write: with the enabling write being instruction E, the
\* SysTick vector is entered for the first time by the code hook that brings
\* the instruction count to max(R + 1, E + 1), not earlier, and once up to
\* that point.
TickFirstEntryFromStart ==
    (phase = "run" /\ ~panic /\ at = "insn") =>
        /\ uc.regs["R12"] # U32(0, 2) => ~nvic.in_interrupt /\ ~obs.fresh
        /\ uc.regs["R12"] = U32(0, 2) =>
              /\ nvic.in_interrupt <=> NUM_INSTRUCTIONS >= FirstTickCount
              /\ obs.fresh <=> NUM_INSTRUCTIONS = FirstTickCount
        /\ obs.fresh => obs.dispatch # None /\ obs.dispatch[1].irq = SYSTICK

\* the scenario's shape: enabled early, the tick comes with instruction R + 1
TickAfterPeriod ==
    /\ phase = "run" /\ ~panic /\ at = "insn" /\ obs.fresh /\ nvic.in_interrupt
    /\ uc.regs["R2"] = U32(0, MaxReload) /\ uc.regs["R0"] = ZERO
    /\ NUM_INSTRUCTIONS = MaxReload + 1
    /\ reg_read(uc, "PC") = HandlerAddr(IRQ_OFFSET + SYSTICK)

\* ---- the display (SpecDisplay)

\* C14: for any sequence of command writes, data writes and reads to the
\* display (regions with left > right or top > bottom and coordinates beyond
\* the panel included), every pixel index x + y * width written to the
\* framebuffer is in [0, W * H): no access indexes the framebuffer out of its
\* bounds.
PixelIndexInBounds ==
    LET d == ext_devices.displays[1]
    IN /\ ~panic
       /\ obs.pixel # None =>
             /\ 0 <= obs.pixel[1]
             /\ obs.pixel[1] < d.config.width * d.config.height
       /\ pixel_index(d, d.current_position.x, d.current_position.y)
             < d.config.width * d.config.height

\* a pixel drawn at the last index, in a region set with left > right and
\* top > bottom from coordinates beyond the panel
BackwardRegionDrawn ==
    LET d == ext_devices.displays[1]
    IN /\ d.config.width = 2 /\ d.config.height = 2
       /\ d.drawing /\ obs.pixel = Some(3) /\ Len(obs.drawn) = 2
       /\ d.draw_region = [left |-> 1, right |-> 0, top |-> 1, bottom |-> 0]
       /\ d.framebuffer_raw[4] = 63488

\* the k-th cell (from 0) of the region in row-major order, as a pixel index
RegionCell(d, k) ==
    LET w == d.draw_region.right - d.draw_region.left + 1
        h == d.draw_region.bottom - d.draw_region.top + 1
    IN (d.draw_region.left + (k % w)) + (d.draw_region.top + ((k \div w) % h)) * d.config.width

RegionSize(d) ==
    (d.draw_region.right - d.draw_region.left + 1) * (d.draw_region.bottom - d.draw_region.top + 1)

\* the pixel a data word is stored as
Stored(d, word) ==
    IF d.config.swap_bytes = Some(TRUE) THEN (word % 256) * 256 + (word \div 256) ELSE word

\* C18: after SetHoriRegion and SetVertRegion select a region with
\* left <= right < width and top <= bottom < height and Draw is issued, the
\* data words written (up to (right-left+1)*(bottom-top+1) of them) are stored
\* each exactly once, in row-major order inside the region (byte-swapped when
\* swap_bytes is set), every other pixel is as it was when Draw was issued,
\* and after the last word the cursor is back at (left, top); for the full
\* panel and the value 0xF800 every framebuffer pixel equals 0xF800.
RegionDraw ==
    \A d \in { ext_devices.displays[1] } :
      (/\ d.drawing /\ ~panic
       /\ d.draw_region.left <= d.draw_region.right
       /\ d.draw_region.top <= d.draw_region.bottom
       /\ Len(obs.drawn) <= RegionSize(d)) =>
          /\ d.draw_region.right < d.config.width /\ d.draw_region.bottom < d.config.height
          /\ obs.before # None
          /\ \A k \in 1..Len(obs.drawn) :
                /\ obs.drawn[k].index = RegionCell(d, k - 1)
                /\ \A j \in 1..Len(obs.drawn) : j # k => obs.drawn[j].index # obs.drawn[k].index
                /\ d.framebuffer_raw[RegionCell(d, k - 1) + 1] = Stored(d, obs.drawn[k].word)
                /\ d.framebuffer[RegionCell(d, k - 1) + 1] = Stored(d, obs.drawn[k].word)
          /\ \A i \in 1..Len(d.framebuffer_raw) :
                (\A k \in 1..Len(obs.drawn) : i # RegionCell(d, k - 1) + 1) =>
                    d.framebuffer_raw[i] = obs.before[1][i]
          /\ pixel_index(d, d.current_position.x, d.current_position.y)
                = RegionCell(d, Len(obs.drawn))
          /\ Len(obs.drawn) = RegionSize(d) =>
                d.current_position = Point(d.draw_region.left, d.draw_region.top)
          /\ (/\ RegionSize(d) = Len(d.framebuffer_raw)
              /\ Len(obs.drawn) = RegionSize(d)
              /\ d.config.swap_bytes # Some(TRUE)
              /\ \A k \in 1..Len(obs.drawn) : obs.drawn[k].word = 63488) =>
                \A i \in 1..Len(d.framebuffer_raw) :
                    d.framebuffer_raw[i] = 63488 /\ d.framebuffer[i] = 63488

\* the panel filled with 0xF800 after both regions were set from the firmware
PanelFilled ==
    LET d == ext_devices.displays[1]
    IN /\ d.config.width = 2 /\ d.config.height = 2 /\ ~panic
       /\ d.drawing /\ Len(obs.drawn) = 4
       /\ d.draw_region = [left |-> 0, right |-> 1, top |-> 0, bottom |-> 1]
       /\ d.current_position = Point(0, 0)
       /\ obs.before = Some(<< 1, 1, 1, 1 >>)
       /\ d.framebuffer_raw = << 63488, 63488, 63488, 63488 >>

\* ---- DMA control register after a transfer (SpecDma)

EnableCleared(v) == U32(v[1], v[2] - (v[2] % 2))

StreamOf(p) == p[DmaSlot].peripheral.streams[DmaStream]

\* the step reads CR, `k` accesses after the firmware's store to CR
CrReadStep(k) ==
    /\ last.n = Len(DmaProgram) + k - 1 /\ last'.n = last.n + 1
    /\ last'.op = "read" /\ last'.addr = StreamReg(0)
    /\ k > 1 => last.op = "read" /\ last.addr = StreamReg(0)

SelfTargeted(st) ==
    /\ dir(st) \in { "Read", "Write" }
    /\ get_peripheral(peripherals, st.par) = Some(DmaSlot)

\* C22: no peripheral handler is re-entered while it is executing: for every
\* DMA configuration the firmware can program, PAR inside the issuing
\* controller's own register block included, handling the enabling store
\* never asks for the controller again (a borrow of the controller that is
\* already held, which aborts the process).
NoSelfReentry ==
    [][EnablingWrite => \A st \in { StreamAtWrite } : ~(SelfTargeted(st) /\ panic')]_vars

\* ---- the eight streams of a controller (SpecStreams)

\* the stream and the register the last access names
StreamIndex == (sub32(last.addr, Dma2Base)[2] - 16) \div 24
StreamOffset == (sub32(last.addr, Dma2Base)[2] - 16) % 24

StreamField(st, r) ==
    CASE r = 0 -> st.cr [] r = 4 -> st.ndtr [] r = 8 -> st.par
      [] r = 12 -> st.m0ar [] r = 16 -> st.m1ar [] OTHER -> st.fcr

\* C23: all 8 stream slots of a DMA controller are reachable through MMIO:
\* for each i in 0..7, a write to stream i's registers at offset
\* 0x10 + 0x18*i + r is stored in stream i and read back from it, and a CR
\* write with enable set at stream i starts stream i's transfer (which leaves
\* its NDTR at 0 and its CR staged).
StreamSlotsReachable ==
    (~panic /\ last.n > 0) =>
        \A st \in { peripherals[DmaSlot].peripheral.streams[StreamIndex] } :
            /\ (last.op = "write" /\ StreamOffset # 0) =>
                  StreamField(st, StreamOffset) = last.value
            /\ (last.op = "write" /\ StreamOffset = 0) =>
                  /\ st.cr = last.value /\ st.ndtr = ZERO
                  /\ st.next_cr = Some(U32(0, 128))
            /\ last.op = "read" => last.result = StreamField(st, StreamOffset)

\* ---- SysTick at the interrupt checks (SpecNvic)

\* the tick is due at instruction count n
TickDue(n) ==
    /\ nvic.systick_period # None
    /\ nvic.systick_period[1][1] = 0
    /\ n - nvic.last_systick_trigger > nvic.systick_period[1][2]

SysTickBit == IRQ_OFFSET + SYSTICK

\* what a check made at count n does with the tick; `gated` says whether
\* PRIMASK or in_interrupt closes the gate at that check
TickLaw(n, gated) ==
    /\ TickDue(n) => nvic'.last_systick_trigger = n
    /\ ~TickDue(n) =>
          /\ nvic'.last_systick_trigger = nvic.last_systick_trigger
          /\ SysTickBit \in nvic'.pending => SysTickBit \in nvic.pending
    /\ (TickDue(n) /\ gated) =>
          /\ nvic'.pending = nvic.pending \cup { SysTickBit }
          /\ ~obs'.fresh
    /\ (TickDue(n) /\ ~gated) =>
          /\ obs'.fresh
          /\ IRQ_OFFSET + obs'.dispatch[1].irq \in nvic.pending \cup { SysTickBit }
          /\ nvic'.pending = (nvic.pending \cup { SysTickBit })
                                \ { IRQ_OFFSET + obs'.dispatch[1].irq }
    /\ nvic'.last_systick_trigger # nvic.last_systick_trigger =>
          nvic'.last_systick_trigger - nvic.last_systick_trigger > nvic.systick_period[1][2]

\* the step is a code hook that checks the interrupts
HookCheck ==
    /\ at = "hook" /\ at' = "insn" /\ ~panic'
    /\ NUM_INSTRUCTIONS % args.interrupt_period = 0

\* the step is an exception return, which checks the interrupts again
ReturnCheck == at = "insn" /\ at' = "hook" /\ ~panic' /\ obs'.ret # None

\* C24: at every interrupt check, SysTick is set pending and
\* last_systick_trigger is updated iff systick_period is set and more than
\* systick_period instructions have elapsed since the last trigger; this
\* happens before the PRIMASK / in_interrupt gate, so a tick that falls due
\* while interrupts are masked or a handler is running is recorded as pending
\* (not dropped, not dispatched at that check), and two consecutive ticks are
\* more than systick_period instructions apart.
TickAtEveryCheck ==
    [][/\ HookCheck =>
             TickLaw(NUM_INSTRUCTIONS + 1,
                     reg_read(uc, "PRIMASK") # ZERO \/ nvic.in_interrupt)
       /\ ReturnCheck => TickLaw(NUM_INSTRUCTIONS, reg_read(uc, "PRIMASK") # ZERO)]_vars

\* a tick recorded by a check made with interrupts masked
TickPendingWhileMasked ==
    /\ ~panic /\ at = "insn" /\ reg_read(uc, "PRIMASK") # ZERO /\ ~nvic.in_interrupt
    /\ nvic.pending = { SysTickBit }
    /\ nvic.last_systick_trigger = NUM_INSTRUCTIONS /\ NUM_INSTRUCTIONS = MaxInstr

\* ---- EXC_RETURN encoding and decoding (SpecNvic)

\* 0xFFFF_FFE9 with bit 2 set iff spsel and bit 4 set iff not fpca
LrFor(spsel, fpca) ==
    U32(HALF - 1, 65513 + (IF spsel THEN 4 ELSE 0) + (IF fpca THEN 0 ELSE 16))

\* the words of a frame: 8 of a basic one, 25 of an extended one
FrameLen(fpca) == IF fpca THEN 25 ELSE 8

\* the word of u's memory at address a
WordAt(u, a) == from_le_bytes(mem_read(u, a, 4).bytes)

\* an exception return that answers a dispatch, LR holding at its beginning
\* the value the dispatch wrote
ReturnWithLrOf(r) ==
    /\ r.dispatch # None
    /\ reg_read(r.at_entry, "LR") = LrFor(r.dispatch[1].spsel, r.dispatch[1].fpca)

\* the return has popped a frame of the dispatch's type from the dispatch's
\* stack pointer: R0 from its lowest word, S0 and FPSCR from words 8 and 24 of
\* an extended frame and left alone by a basic one, and SP moved up by the frame
PoppedAsPushed(r) ==
    LET d == r.dispatch[1]
        sp == r.at_entry.regs[IF d.spsel THEN "PSP" ELSE "MSP"]
    IN /\ r.at_exit.regs["R0"] = WordAt(r.at_entry, sp)
       /\ r.at_exit.regs["S0"] =
             (IF d.fpca THEN WordAt(r.at_entry, add32(sp, U32(0, 32)))
                        ELSE r.at_entry.regs["S0"])
       /\ r.at_exit.regs["FPSCR"] =
             (IF d.fpca THEN WordAt(r.at_entry, add32(sp, U32(0, 96)))
                        ELSE r.at_entry.regs["FPSCR"])
       /\ r.at_exit.regs[ActiveSp(r.at_entry)] = add32(sp, U32(0, 4 * FrameLen(d.fpca)))

\* C25: for every CONTROL.SPSEL and CONTROL.FPCA at dispatch, the LR written
\* on entry is 0xFFFF_FFE9 with bit 2 set iff spsel and bit 4 set iff not
\* fpca; an exception return that decodes that LR pops the same stack pointer
\* and the same frame type (8 or 25 words) as were pushed, and leaves
\* CONTROL.SPSEL and CONTROL.FPCA as they were before the dispatch.
ExcReturnRoundTrip ==
    /\ obs.fresh =>
         LET d == obs.dispatch[1]
         IN /\ d.spsel = spsel_of(d.regs["CONTROL"])
            /\ d.fpca = fpca_of(d.regs["CONTROL"])
            /\ reg_read(uc, "LR") = LrFor(d.spsel, d.fpca)
            /\ d.regs[IF d.spsel THEN "PSP" ELSE "MSP"] =
                  add32(reg_read(uc, "SP"), U32(0, 4 * FrameLen(d.fpca)))
    /\ (obs.ret # None /\ ReturnWithLrOf(obs.ret[1])) =>
         LET r == obs.ret[1]
             d == r.dispatch[1]
         IN /\ PoppedAsPushed(r)
            /\ spsel_of(reg_read(r.at_exit, "CONTROL")) = spsel_of(d.regs["CONTROL"])
            /\ fpca_of(reg_read(r.at_exit, "CONTROL")) = fpca_of(d.regs["CONTROL"])

\* a handler entered with an extended frame on the process stack has cleared
\* CONTROL and returned with the LR of its entry: CONTROL is 6 again
ExtendedProcessReturn ==
    /\ obs.ret # None /\ ReturnWithLrOf(obs.ret[1])
    /\ obs.ret[1].dispatch[1].spsel /\ obs.ret[1].dispatch[1].fpca
    /\ reg_read(obs.ret[1].at_entry, "CONTROL") = ZERO
    /\ reg_read(obs.ret[1].at_exit, "CONTROL") = U32(0, 6)

\* ---- the check that follows an exception return (SpecNvic)

\* the step ends with a handler entered by this hook: in_interrupt is set and
\* PC is the handler's vector, the PC the return restored being the one saved
\* in the new frame
DispatchedAfterReturn ==
    /\ obs'.fresh /\ nvic'.in_interrupt
    /\ reg_read(uc', "PC") = read_vector_addr(Sys, obs'.dispatch[1].irq).vector
    /\ obs'.dispatch[1].regs["PC"] = reg_read(obs'.ret[1].at_exit, "PC")

\* the step ends in the interrupted code: in_interrupt is clear, no handler
\* was entered and PC is the one the return restored
ResumedAfterReturn ==
    /\ ~obs'.fresh /\ ~nvic'.in_interrupt
    /\ reg_read(uc', "PC") = reg_read(obs'.ret[1].at_exit, "PC")

\* the PC the return restores is word 6 of the frame it pops
RestoredPcFromFrame ==
    LET r == obs'.ret[1]
        lr == reg_read(uc, "LR")
        spsel == IF lr[1] = HALF - 1 /\ lr[2] \div 256 = 255
                 THEN (lr[2] \div 4) % 2 = 1
                 ELSE spsel_of(reg_read(uc, "CONTROL"))
    IN reg_read(r.at_exit, "PC") =
          WordAt(uc, add32(uc.regs[IF spsel THEN "PSP" ELSE "MSP"], U32(0, 24)))

\* C26 as claimed: on an exception return, if an IRQ is pending and
\* PRIMASK = 0 a pending IRQ's handler is dispatched within the same hook,
\* and if none is pending execution resumes at the restored PC with
\* in_interrupt false.
ReturnThenPendingAsClaimed ==
    [][ReturnCheck =>
         /\ (nvic.pending # {} /\ reg_read(uc, "PRIMASK") = ZERO) =>
               /\ DispatchedAfterReturn
               /\ IRQ_OFFSET + obs'.dispatch[1].irq \in nvic.pending
         /\ nvic.pending = {} => ResumedAfterReturn]_vars

\* C26 amended: on an exception return in_interrupt is cleared and the
\* pending interrupts are run again within the same hook, SysTick counting as
\* pending when it falls due at this check.  If PRIMASK = 0 and an IRQ is
\* pending or SysTick is due, the lowest of them is dispatched before any
\* instruction of the interrupted code executes and in_interrupt is true when
\* the hook returns; if PRIMASK # 0, or none is pending and SysTick is not due,
\* execution resumes at the restored PC with in_interrupt false.
ReturnThenPending ==
    [][ReturnCheck =>
         LET due == IF TickDue(NUM_INSTRUCTIONS) THEN { SysTickBit } ELSE {}
             open == reg_read(uc, "PRIMASK") = ZERO
         IN /\ RestoredPcFromFrame
            /\ (open /\ nvic.pending \cup due # {}) =>
                  /\ DispatchedAfterReturn
                  /\ \A b \in nvic.pending \cup due : IRQ_OFFSET + obs'.dispatch[1].irq <= b
                  /\ IRQ_OFFSET + obs'.dispatch[1].irq \in nvic.pending \cup due
            /\ (~open \/ nvic.pending \cup due = {}) => ResumedAfterReturn]_vars

\* a handler has returned with an external IRQ pending and PRIMASK = 0, and
\* that IRQ's handler is entered with the restored PC in its frame
ChainedHandler ==
    /\ obs.ret # None /\ obs.fresh /\ nvic.in_interrupt
    /\ obs.dispatch[1].irq = 0
    /\ obs.dispatch[1].regs["PC"] = reg_read(obs.ret[1].at_exit, "PC")
    /\ obs.ret[1].dispatch # None

\* ---- a run that never ends: interrupts under fair scheduling (SpecFair)
\*
\* The firmware is a two-instruction loop, `msr PRIMASK, r` followed by a
\* branch back, in thread mode and in every handler; SysTick stays disabled, so
\* the u64 instruction counter is read only modulo interrupt_period and is
\* kept here at a width of CounterWrap values.

CounterWrap == 4

\* the lines set pending by the peripheral models: PendSV and two external IRQs
FairIrqs == { PENDSV, 0, 1 }

InitFair ==
    /\ InitBoard
    /\ args \in [interrupt_period : 1..MaxPeriod, busy_loop_stop : { FALSE }]

\* the code hook
FairHook(quit) == HookTo(quit, (NUM_INSTRUCTIONS + 1) % CounterWrap)

\* the host executes one instruction of the loop
FirstOfLoop == (reg_read(uc, "PC")[2] \div 2) % 2 = 0

LoopMsr(v) == FirstOfLoop /\ FirmwareMsr("PRIMASK", v)

LoopBranch ==
    /\ ~FirstOfLoop
    /\ Instruction(reg_write(uc, "PC", sub32(reg_read(uc, "PC"), U32(0, 2))))

\* `bx lr` in a handler
ExceptionReturn == IntrHook(8)

NextFair ==
    \/ \E quit \in BOOLEAN : FairHook(quit)
    \/ \E v \in { ZERO, U32(0, 1) } : LoopMsr(v)
    \/ LoopBranch
    \/ ExceptionReturn
    \/ \E irq \in FairIrqs : SetIntrPending(irq)

Running == phase = "run" /\ ~panic

\* the host calls the code hook before the instruction at PC
HookTurn == Running /\ at = "hook" /\ at' = "insn"

\* the host executes the instruction at PC, an exception return included
CpuTurn == Running /\ at = "insn" /\ at' = "hook"

\* uc.emu_start runs instruction after instruction, each one preceded by the
\* code hook, until the run is stopped: the steps of the peripheral models
\* cannot hold up the hook, nor the instruction that follows it
SpecFair ==
    /\ InitFair /\ [][NextFair]_vars
    /\ WF_at(HookTurn)
    /\ WF_at(CpuTurn)

\* a check of the pending interrupts made with PRIMASK = 0: by the code hook,
\* or after an exception return
OpenCheck ==
    /\ reg_read(uc, "PRIMASK") = ZERO /\ ~panic'
    /\ \/ at = "hook" /\ at' = "insn" /\ NUM_INSTRUCTIONS % args.interrupt_period = 0
       \/ at = "insn" /\ at' = "hook" /\ obs'.ret # None

\* line `bit` goes from not pending to pending
Pended(bit) == bit \notin nvic.pending /\ bit \in nvic'.pending

\* the handler of line `bit` has just been entered
Dispatched(bit) == obs.fresh /\ IRQ_OFFSET + obs.dispatch[1].irq = bit

FairBits == { IRQ_OFFSET + irq : irq \in FairIrqs }

\* C27: no pending interrupt is starved forever.  If every dispatched handler
\* eventually performs its exception return, interrupt checks keep occurring
\* with PRIMASK = 0 and the lower-numbered IRQs are not re-pended forever, a
\* pending IRQ is eventually dispatched; its pending bit stays set until that
\* dispatch.
NoStarvation ==
    /\ \A bit \in FairBits :
          (/\ nvic.in_interrupt ~> ~nvic.in_interrupt
           /\ []<><<OpenCheck>>_vars
           /\ <>[][\A low \in FairBits : low < bit => ~Pended(low)]_vars)
          => ((bit \in nvic.pending) ~> Dispatched(bit))
    /\ [][\A bit \in FairBits :
             (bit \in nvic.pending /\ bit \notin nvic'.pending) =>
                 (obs'.fresh /\ IRQ_OFFSET + obs'.dispatch[1].irq = bit)]_vars

\* external IRQ 1, pending while the PendSV handler ran, is entered by the
\* check that follows the return of that handler
HighestLineServed ==
    /\ Dispatched(IRQ_OFFSET + 1)
    /\ obs.ret # None /\ obs.ret[1].dispatch # None
    /\ obs.ret[1].dispatch[1].irq = PENDSV
    /\ IRQ_OFFSET + 1 \in obs.sched[1]

\* ---- DMA transfers whose access fails (SpecDma)

\* where the transfer of stream st reads from and writes to
SourceOf(st) == IF dir(st) = "Write" THEN data_addr(st) ELSE st.par
DestOf(st) == IF dir(st) = "Write" THEN st.par ELSE data_addr(st)

\* the source read of a memory->peripheral or memory->memory transfer fails,
\* or no peripheral covers PAR of a peripheral->memory transfer
AccessFails(st) ==
    \/ /\ dir(st) \in { "Write", "MemCopy" }
       /\ ~mem_read(uc, SourceOf(st), word_size(st) * st.ndtr[2]).ok
    \/ /\ dir(st) = "Read"
       /\ get_peripheral(peripherals, st.par) = None

\* word_size * NDTR zero bytes have reached the destination of st: the sink
\* at PAR, one write per byte, or the memory at the data address
ZerosDelivered(st) ==
    \E n \in { word_size(st) * st.ndtr[2] } :
        IF dir(st) = "Write"
        THEN IF Sink = None THEN obs'.dma = << >>
             ELSE Delivered([k \in 1..n |-> 0])
        ELSE IF mem_write(uc, DestOf(st), [k \in 1..n |-> 0]).ok
             THEN uc' = mem_write(uc, DestOf(st), [k \in 1..n |-> 0]).uc
             ELSE uc' = uc

\* the stream ends with the enable bit cleared in the staged CR and NDTR = 0
StreamEnded ==
    \E st \in { StreamOf(peripherals') } :
        /\ st.next_cr = Some(EnableCleared(last'.value))
        /\ st.ndtr = ZERO

\* C28: if the source read of a memory->peripheral or memory->memory transfer
\* fails, or no peripheral covers PAR of a peripheral->memory transfer, the
\* transfer continues with word_size * NDTR zero bytes delivered to the
\* destination; nothing aborts, and the stream ends with the enable bit
\* cleared in the staged CR and NDTR = 0.
FailedAccessZeroFilled ==
    [][EnablingWrite =>
         \A st \in { StreamAtWrite } :
             AccessFails(st) => (~panic' /\ ZerosDelivered(st) /\ StreamEnded)]_vars

\* the same for a PAR outside the DMA controller's own registers, into which a
\* transfer panics
FailedAccessElsewhere ==
    [][EnablingWrite =>
         \A st \in { StreamAtWrite } :
             (AccessFails(st) /\ get_peripheral(peripherals, st.par) # Some(DmaSlot))
                 => (~panic' /\ ZerosDelivered(st) /\ StreamEnded)]_vars

\* ---- BSRR and the write-callbacks (SpecGpio)

\* the step is a word store of the firmware to ODR or BSRR of port A
PinStore ==
    /\ last'.n = last.n + 1 /\ last'.op = "write" /\ ~panic' /\ last'.size = 4
    /\ last'.addr \in { add32(GpioABase, U32(0, 20)), add32(GpioABase, U32(0, 24)) }

BsrrStore == PinStore /\ last'.addr = add32(GpioABase, U32(0, 24))

\* pin k is named in the set half, in the reset half of the value stored
SetNamed(k) == bit32(last'.value, k) = 1
ResetNamed(k) == bit32(last'.value, 16 + k) = 1

\* the value the last invocation of write-callback c in the step received
LastReceived(port, c) ==
    obs'.calls[CHOOSE n \in Invocations(port, c) :
                  \A m \in Invocations(port, c) : m <= n].value

\* C29: a BSRR write with set mask s and reset mask r leaves
\* ODR = (ODR & ~r) | s and invokes the write-callbacks of every pin named in s
\* or r; after any ODR or BSRR write the last value a pin's write-callback
\* received equals that pin's ODR bit, also when one BSRR write names the
\* same pin in both halves (a pin whose callbacks are not invoked keeps its
\* ODR bit).
CallbackFollowsOdr ==
    [][PinStore =>
         LET q == peripherals[GpioASlot].peripheral
             od1 == peripherals'[GpioASlot].peripheral.od
             cbs == gpio.write_callbacks[q.port]
         IN /\ BsrrStore =>
                 /\ od1[1] = 0
                 /\ \A k \in 0..15 :
                      bit32(od1, k) = (IF SetNamed(k) THEN 1
                                       ELSE IF ResetNamed(k) THEN 0 ELSE bit32(q.od, k))
                 /\ \A c \in 1..Len(cbs) :
                      (SetNamed(cbs[c].pin) \/ ResetNamed(cbs[c].pin))
                          => Invocations(q.port, c) # {}
            /\ \A c \in 1..Len(cbs) :
                 IF Invocations(q.port, c) # {}
                 THEN LastReceived(q.port, c) = (bit32(od1, cbs[c].pin) = 1)
                 ELSE bit32(od1, cbs[c].pin) = bit32(q.od, cbs[c].pin)]_vars

\* the same for a BSRR write that names no pin in both halves
CallbackFollowsOdrApart ==
    [][(PinStore /\ (BsrrStore => \A k \in 0..15 : ~(SetNamed(k) /\ ResetNamed(k)))) =>
         LET q == peripherals[GpioASlot].peripheral
             od1 == peripherals'[GpioASlot].peripheral.od
             cbs == gpio.write_callbacks[q.port]
         IN \A c \in 1..Len(cbs) :
                 IF Invocations(q.port, c) # {}
                 THEN LastReceived(q.port, c) = (bit32(od1, cbs[c].pin) = 1)
                 ELSE bit32(od1, cbs[c].pin) = bit32(q.od, cbs[c].pin)]_vars

\* ---- the software SPI while deselected (SpecSerial)

\* the step is a store of the firmware to a register of port A
PortAStore == last'.n = last.n + 1 /\ last'.op = "write"

\* the write-callbacks of pin `pin` of port A invoked in the step with `value`
PinCalls(pin, value) ==
    { n \in 1..Len(obs'.calls) :
        /\ obs'.calls[n].kind = "cb" /\ obs'.calls[n].pin = pin
        /\ obs'.calls[n].value = value }

\* the step makes no call to a device and ends no frame
NoDeviceCall ==
    /\ \A n \in 1..Len(obs'.calls) : obs'.calls[n].kind = "cb"
    /\ ext_devices' = ext_devices

\* the latched CS (PA0) is high whenever a CLK (PA1) or MOSI (PA3) write of
\* the step arrives: it was high before the step or its rise is the first
\* callback of the step, and it does not fall
HighThroughout ==
    /\ gpio.sw_spi[1].cs \/ (Len(obs'.calls) > 0 /\ 1 \in PinCalls(0, TRUE))
    /\ PinCalls(0, FALSE) = {}
    /\ PinCalls(1, TRUE) \cup PinCalls(1, FALSE)
         \cup PinCalls(3, TRUE) \cup PinCalls(3, FALSE) # {}

\* CS falls in the step and no clock edge rises after it
SelectedAgain ==
    /\ gpio.sw_spi[1].cs /\ ~gpio'.sw_spi[1].cs
    /\ PinCalls(1, TRUE) = {}

\* what a load of IDR returns on the MISO pin (PA2)
MisoRead == bit32(read_cb(Sys, add32(GpioABase, U32(0, 16)), 4).value, 2)

\* C30: while the latched CS of a software SPI is high, CLK and MOSI writes
\* leave data_mosi, data_miso, bit_index and the latched clk, mosi and miso
\* unchanged and cause no device call, and MISO reads as low; a CS falling
\* edge resets data_mosi, data_miso and bit_index to 0, so that bits clocked in
\* before CS went high are not part of a later byte; bit_index is within 0..7
\* in every reachable state.
DeselectedSpiIdle ==
    /\ [](~panic =>
            /\ gpio.sw_spi[1].bit_index \in 0..7
            /\ gpio.sw_spi[1].cs => MisoRead = 0)
    /\ [][(PortAStore /\ ~panic') =>
            /\ HighThroughout =>
                 /\ gpio'.sw_spi[1] = [gpio.sw_spi[1] EXCEPT !.cs = TRUE]
                 /\ NoDeviceCall
            /\ SelectedAgain =>
                 /\ gpio'.sw_spi[1].data_mosi = 0
                 /\ gpio'.sw_spi[1].data_miso = 0
                 /\ gpio'.sw_spi[1].bit_index = 0]_vars

\* the chip select was raised and lowered after four bits of the second
\* byte, 0xFF: the four bits are dropped and the clock the firmware pulled low
\* meanwhile is not seen as a new edge
HalfByteDropped ==
    /\ ~panic /\ FirmwareAt(Clock)
    /\ uc.regs["R2"] = U32(0, 1) /\ uc.regs["R1"] = U32(0, 4) /\ uc.regs["R0"] = U32(0, 255)
    /\ uc.regs["R12"][1] = 2
    /\ ~gpio.sw_spi[1].cs
    /\ gpio.sw_spi[1].bit_index = 0 /\ gpio.sw_spi[1].data_mosi = 0

\* deselected with the last MISO level latched high: the pin reads low
MisoMaskedHigh ==
    /\ ~panic /\ gpio.sw_spi[1].cs /\ gpio.sw_spi[1].miso /\ MisoRead = 0


\* ---- a serial peripheral driving a flash through ExtDevice::write and
\* ---- ExtDevice::read in any order (SpecFlash); the firmware keeps its place
\* ---- in the ReadData command in R12 (0 outside, 1..3 the address byte due,
\* ---- 4 reading), the address it sent in R0, the reads since in R1 and, in
\* ---- R2, one more than the reads it had made when it last sent an idle byte

\* number of calls made on the device
MaxFlashCalls == 9

\* the image sizes configured: shorter than the file, and longer
FlashSizes == { 2, 4 }

\* the bytes the firmware sends
FlashBytes == { 3, 0, 255, 159, 1 }

TheFlash == [list |-> "spi_flashes", j |-> 1]

FlashBoard(size) ==
    prepare([ExtDevicesDefault EXCEPT
               !.spi_flashes = << SpiFlashNew([FlashConfig(U32(1, 515)) EXCEPT !.size = size],
                                              FlashFile) >>],
            GpioBoardSvd, << FlashSpiConfig >>)

InitFlash ==
    \E size \in FlashSizes :
      \E board \in { FlashBoard(size) } : InitOn(board, GpioBoardSvd)

FlashAt == uc.regs["R12"][2]

\* the firmware's bookkeeping of the byte it sends
FlashSent(u, v) ==
    LET p == u.regs["R12"][2]
    IN IF p \in 1 .. 3
       THEN [u EXCEPT !.regs["R12"] = U32(0, p + 1),
                      !.regs["R0"] = U32((@[1] * 256 + @[2] \div 256) % HALF,
                                         (@[2] * 256 + v) % HALF),
                      !.regs["R1"] = ZERO, !.regs["R2"] = ZERO]
       ELSE IF p = 4 /\ v \in { 0, 255 }
       THEN [u EXCEPT !.regs["R2"] = U32(0, u.regs["R1"][2] + 1)]
       ELSE [u EXCEPT !.regs["R12"] = U32(0, IF v = 3 THEN 1 ELSE 0),
                      !.regs["R0"] = ZERO, !.regs["R1"] = ZERO, !.regs["R2"] = ZERO]

FlashSend(v) ==
    /\ last.n < MaxFlashCalls
    /\ \E s \in { ExtDevice_write(ObserveBegin(Sys), TheFlash, v) } :
         SetSys([s EXCEPT !.uc = FlashSent(uc, v)])
    /\ last' = [op |-> "write", addr |-> ZERO, size |-> 1, value |-> U32(0, v),
                result |-> ZERO, n |-> last.n + 1]
    /\ UNCHANGED << svd, todo, phase, at, NUM_INSTRUCTIONS, LAST_INSTRUCTION,
                    BUSY_LOOP_REACHED, STOP_REQUESTED, args >>

FlashFetch ==
    /\ last.n < MaxFlashCalls
    /\ \E r \in { ExtDevice_read(ObserveBegin(Sys), TheFlash) } :
         /\ SetSys([r.s EXCEPT !.uc.regs["R1"] =
                                 IF FlashAt = 4 THEN U32(0, @[2] + 1) ELSE @])
         /\ last' = [op |-> "read", addr |-> ZERO, size |-> 1, value |-> ZERO,
                     result |-> U32(0, r.value), n |-> last.n + 1]
    /\ UNCHANGED << svd, todo, phase, at, NUM_INSTRUCTIONS, LAST_INSTRUCTION,
                    BUSY_LOOP_REACHED, STOP_REQUESTED, args >>

NextFlash ==
    \/ \E v \in FlashBytes : FlashSend(v)
    \/ FlashFetch

SpecFlash == InitFlash /\ [][NextFlash]_vars

FlashDevice == ext_devices.spi_flashes[1]

\* the 24-bit address the firmware sent, most significant byte first
AddressSent == uc.regs["R0"][1] * 65536 + uc.regs["R0"][2]

\* the place in the image of the k-th read after the address
PlaceOf(k) == ((AddressSent % FlashDevice.config.size) + k) % FlashDevice.config.size

FetchStep == last'.n = last.n + 1 /\ last'.op = "read"
SendStep == last'.n = last.n + 1 /\ last'.op = "write"

\* C31: after the command byte 0x03 and three address bytes forming A, sent
\* through any interleaving of writes and reads, the k-th read returns the
\* image's byte at ((A mod size) + k) mod size and leaves the cursor inside
\* the image; the address bytes are taken as the command's arguments and as
\* nothing else; an idle byte (0x00, 0xFF) written between the reads changes
\* neither the cursor nor the pending command
ReadDataWraps ==
    [][ /\ (FetchStep /\ FlashAt = 4) =>
              /\ last'.result = U32(0, FlashDevice.content[PlaceOf(uc.regs["R1"][2])])
              /\ FlashDevice'.reply =
                   Some([kind |-> "FileContent", addr |-> PlaceOf(uc.regs["R1"][2] + 1)])
              /\ FlashDevice'.reply[1].addr \in 0 .. FlashDevice.config.size - 1
              /\ FlashDevice'.cmd = FlashDevice.cmd
        /\ (SendStep /\ FlashAt \in 1 .. 2) =>
              /\ FlashDevice'.cmd # None
              /\ FlashDevice'.cmd[1].cmd = "ReadData"
              /\ Len(FlashDevice'.cmd[1].args) = FlashAt
              /\ FlashDevice'.reply = FlashDevice.reply
        /\ (SendStep /\ FlashAt = 3) =>
              /\ FlashDevice'.cmd = None
              /\ FlashDevice'.reply =
                   Some([kind |-> "FileContent",
                         addr |-> AddressSent' % FlashDevice.config.size])
        /\ (SendStep /\ FlashAt = 4 /\ last'.value[2] \in { 0, 255 }) =>
              FlashDevice' = FlashDevice
        /\ (FetchStep /\ FlashAt \in 1 .. 3) => FlashDevice'.cmd = FlashDevice.cmd
      ]_vars

\* a read that went past the end of the image and came back to its first
\* byte, with an idle byte written between the two reads
WrappedRead ==
    /\ FlashAt = 4 /\ last.op = "read"
    /\ FlashDevice.config.size = 4
    /\ AddressSent = 3
    /\ uc.regs["R1"][2] = 2
    /\ last.result = U32(0, 222)
    /\ uc.regs["R2"][2] = 2


\* ---- a firmware programming and polling SysTick (SpecStk): it keeps the
\* ---- value it last stored to STK.CTRL in S4 and to STK.LOAD in S5, the value
\* ---- it last loaded from STK.CTRL in S6 and from STK.VAL in S7; S8 (S9) is 1
\* ---- once it has loaded STK.CTRL (STK.VAL) since its last store to SysTick;
\* ---- CONTROL.FPCA stays clear, so an exception frame leaves S4..S9 alone

\* instructions a run executes
MaxStkInstr == 5

\* ENABLE and TICKINT in every combination, with CLKSOURCE and with bit 16
CtrlValues == { ZERO, U32(0, 1), U32(0, 2), U32(0, 3), U32(0, 7), U32(1, 3) }

\* 0, 1, 4, 0x0001_0005
LoadValues == { ZERO, U32(0, 1), U32(0, 4), U32(1, 5) }

InitStk ==
    /\ InitBoard
    /\ args = [interrupt_period |-> 1, busy_loop_stop |-> FALSE]

StkHook == NUM_INSTRUCTIONS < MaxStkInstr /\ Hook(FALSE)

\* `str r, [STK, #offset]`
StkStore(offset, value, reg) ==
    /\ phase = "run" /\ ~panic /\ at = "insn"
    /\ \E s \in { write_cb(ObserveBegin(Sys), add32(StkBase, U32(0, offset)), 4, value) } :
         SetSys([s EXCEPT !.uc = NextPc([s.uc EXCEPT !.regs[reg] = value,
                                                     !.regs["S8"] = ZERO,
                                                     !.regs["S9"] = ZERO])])
    /\ last' = [op |-> "write", addr |-> add32(StkBase, U32(0, offset)), size |-> 4,
                value |-> value, result |-> ZERO, n |-> last.n + 1]
    /\ at' = "hook"
    /\ UNCHANGED << svd, todo, phase, NUM_INSTRUCTIONS, LAST_INSTRUCTION,
                    BUSY_LOOP_REACHED, STOP_REQUESTED, args >>

\* `ldr r, [STK, #offset]`
StkFetch(offset, reg, flag) ==
    /\ phase = "run" /\ ~panic /\ at = "insn"
    /\ \E r \in { read_cb(ObserveBegin(Sys), add32(StkBase, U32(0, offset)), 4) } :
         /\ SetSys([r.s EXCEPT !.uc = NextPc([r.s.uc EXCEPT !.regs[reg] = r.value,
                                                          !.regs[flag] = U32(0, 1)])])
         /\ last' = [op |-> "read", addr |-> add32(StkBase, U32(0, offset)), size |-> 4,
                     value |-> ZERO, result |-> r.value, n |-> last.n + 1]
    /\ at' = "hook"
    /\ UNCHANGED << svd, todo, phase, NUM_INSTRUCTIONS, LAST_INSTRUCTION,
                    BUSY_LOOP_REACHED, STOP_REQUESTED, args >>

StkReturn == nvic.in_interrupt /\ IntrHook(8)

NextStk ==
    \/ StkHook
    \/ \E v \in CtrlValues : StkStore(0, v, "S4")
    \/ \E v \in LoadValues : StkStore(4, v, "S5")
    \/ StkFetch(0, "S6", "S8")
    \/ StkFetch(8, "S7", "S9")
    \/ FirmwareNop
    \/ StkReturn

SpecStk == InitStk /\ [][NextStk]_vars

\* the values last written to CTRL and LOAD
CtlWritten == uc.regs["S4"]
ReloadWritten == uc.regs["S5"]

BothEnabled(ctl) == and32(ctl, U32(0, 3)) = U32(0, 3)

\* C32: after any sequence of STK.CTRL and STK.LOAD writes, the NVIC's
\* systick_period is the reload value last written if the control value last
\* written has ENABLE and TICKINT both set, and is unset otherwise; while
\* either of the two bits is clear no step sets SysTick pending or moves
\* last_systick_trigger
PeriodFollowsWrites ==
    /\ [](nvic.systick_period =
            IF BothEnabled(CtlWritten) THEN Some(ReloadWritten) ELSE None)
    /\ [][(~BothEnabled(CtlWritten) /\ ~BothEnabled(CtlWritten')) =>
             /\ nvic'.last_systick_trigger = nvic.last_systick_trigger
             /\ SysTickBit \in nvic'.pending => SysTickBit \in nvic.pending]_vars

\* SysTick has ticked, then lost TICKINT alone, and more instructions than
\* its reload value have run since its last tick without a new one
TickStopped ==
    /\ CtlWritten = U32(0, 1) /\ ReloadWritten = U32(0, 1)
    /\ nvic.systick_period = None
    /\ nvic.last_systick_trigger > 0
    /\ NUM_INSTRUCTIONS - nvic.last_systick_trigger > 2
    /\ SysTickBit \notin nvic.pending /\ ~nvic.in_interrupt


\* ---- polling STK.CTRL and STK.VAL (SpecStk)

StkFetchOf(offset) ==
    /\ last'.n = last.n + 1 /\ last'.op = "read"
    /\ last'.addr = add32(StkBase, U32(0, offset))

\* the load before this one was of the same register
PolledAlone(offset) == last.op = "read" /\ last.addr = add32(StkBase, U32(0, offset))

CountFlag == U32(1, 0)

\* C33: for any interleaving of loads of STK.CTRL and STK.VAL, two consecutive
\* loads of VAL return the two different values 0 and reload/2 (reload >= 2),
\* and two consecutive loads of CTRL return ctl with bit 16 flipped relative
\* to each other
PollingObservesChange ==
    [][ /\ (StkFetchOf(8) /\ uc.regs["S9"] = U32(0, 1)
              /\ ReloadWritten \notin { ZERO, U32(0, 1) }) =>
              { last'.result, uc.regs["S7"] } = { ZERO, shr32(ReloadWritten, 1) }
        /\ (StkFetchOf(0) /\ uc.regs["S8"] = U32(0, 1)) =>
              /\ last'.result = xor32(uc.regs["S6"], CountFlag)
              /\ or32(last'.result, CountFlag) = or32(CtlWritten, CountFlag)
      ]_vars

\* the same for a register polled alone, the control value having bit 16 clear
PollingAloneObservesChange ==
    [][ /\ (StkFetchOf(8) /\ uc.regs["S9"] = U32(0, 1) /\ PolledAlone(8)
              /\ ReloadWritten \notin { ZERO, U32(0, 1) }) =>
              { last'.result, uc.regs["S7"] } = { ZERO, shr32(ReloadWritten, 1) }
        /\ (StkFetchOf(0) /\ uc.regs["S8"] = U32(0, 1) /\ PolledAlone(0)
              /\ and32(CtlWritten, CountFlag) = ZERO) =>
              /\ last'.result = xor32(uc.regs["S6"], CountFlag)
              /\ or32(last'.result, CountFlag) = or32(CtlWritten, CountFlag)
      ]_vars


\* ---- the interrupt hook's exception codes (SpecNvic)

HookedWith(code) == obs'.excp = Some(code)

\* C34 as stated: code 8 is routed to the interrupt controller's return path,
\* and every other code, code 3 included, terminates the process
OnlyReturnContinues ==
    [][ /\ HookedWith(8) => obs'.ret # None
        /\ \A code \in ExceptionCodes \ { 8 } : HookedWith(code) => phase' = "exited"
      ]_vars

\* C34: code 8 is routed to the interrupt controller's return path and the
\* run goes on; code 3 is logged and the run goes on with the CPU and the
\* interrupt controller as they were; every other code terminates the
\* process, after which nothing more is emulated
AbortContinues ==
    [][ /\ HookedWith(8) => (obs'.ret # None /\ phase' = "run")
        /\ HookedWith(3) => (phase' = "run" /\ uc' = uc /\ nvic' = nvic /\ ~panic')
        /\ \A code \in ExceptionCodes \ { 8, 3 } : HookedWith(code) => phase' = "exited"
        /\ phase = "exited" => UNCHANGED vars
      ]_vars

\* the hook has returned from code 3 and the next instruction is about to run
ContinuedAfterAbort ==
    /\ obs.excp = Some(3) /\ phase = "run" /\ at = "hook" /\ ~panic
    /\ NUM_INSTRUCTIONS > 0 /\ NUM_INSTRUCTIONS < MaxInstr


\* ---- the code hook's redraw and event pump (SpecNvic)

HookStep == at = "hook" /\ at' = "insn" /\ ~panic'

\* C35: the code hook redraws and pumps the host's events exactly at the
\* instruction counts n with n mod 100 000 = 0, and at no other count
PumpEveryInterval ==
    [][ HookStep => (obs'.pump <=> NUM_INSTRUCTIONS % PUMP_EVENT_INST_INTERVAL = 0) ]_vars

\* the counts at which it does: those sharing no bit with 100 000
PumpOnClearBits ==
    [][ HookStep =>
          /\ obs'.pump <=> BitAnd(NUM_INSTRUCTIONS, PUMP_EVENT_INST_INTERVAL) = 0
          /\ (STOP_REQUESTED' /\ ~STOP_REQUESTED) => obs'.pump ]_vars


\* ---- the emulation loop under max_instructions (SpecBudget): `at` is
\* ---- "loop" while the CPU host is not running; the host keeps, in uc, the
\* ---- instruction count it was started with (budget) and the number of
\* ---- instructions it has executed since (count)

\* the largest max_instructions given on the command line
MaxBudget == 4

\* the whole of max_instructions at every start
remaining_whole(c, n) == c

\* c - NUM_INSTRUCTIONS.load()
remaining(c, n) == c - n

HostOf(u, budget, count) ==
    [f \in DOMAIN u \cup { "budget", "count" } |->
        IF f = "budget" THEN budget ELSE IF f = "count" THEN count ELSE u[f]]

InitBudget ==
    /\ svd = sort_by_base_address(BoardSvd)
    /\ todo = Len(BoardSvd) + 1
    /\ phase = "run"
    /\ uc = HostOf(Board.uc, 0, 0)
    /\ nvic = Board.nvic /\ panic = Board.panic
    /\ peripherals = Board.peripherals
    /\ debug_peripherals = Board.debug_peripherals
    /\ gpio = Board.gpio /\ ext_devices = Board.d
    /\ obs = Board.obs
    /\ \E m \in 0 .. MaxBudget : \E p \in 1 .. MaxPeriod : \E b \in BOOLEAN :
         args = [interrupt_period |-> p, busy_loop_stop |-> b, max_instructions |-> Some(m)]
    /\ at = "loop"
    /\ NUM_INSTRUCTIONS = 0
    /\ LAST_INSTRUCTION = << ZERO, 0 >>
    /\ BUSY_LOOP_REACHED = FALSE
    /\ STOP_REQUESTED = FALSE
    /\ last = NoAccess

\* the head of the loop: the budget left, the test for zero, uc.emu_start
LoopHead ==
    /\ phase = "run" /\ ~panic /\ at = "loop"
    /\ LET c == args.max_instructions[1]
       IN IF NUM_INSTRUCTIONS > c
          THEN panic' = TRUE /\ UNCHANGED << uc, at, phase >>
          ELSE IF remaining(c, NUM_INSTRUCTIONS) = 0
          THEN phase' = "stopped" /\ UNCHANGED << uc, at, panic >>
          ELSE /\ uc' = [uc EXCEPT !.budget = remaining(c, NUM_INSTRUCTIONS), !.count = 0]
               /\ at' = "hook"
               /\ UNCHANGED << phase, panic >>
    /\ UNCHANGED << nvic, peripherals, debug_peripherals, gpio, ext_devices, obs, svd, todo,
                    NUM_INSTRUCTIONS, LAST_INSTRUCTION, BUSY_LOOP_REACHED, STOP_REQUESTED,
                    args, last >>

\* the host calls the code hook while its count is below its budget
BudgetHook(quit) == uc.count < uc.budget /\ Hook(quit)

\* the host has executed its budget: uc.emu_start returns Ok
HostReturn ==
    /\ phase = "run" /\ ~panic /\ at = "hook"
    /\ uc.count = uc.budget
    /\ at' = "loop"
    /\ UNCHANGED << uc, nvic, panic, peripherals, debug_peripherals, gpio, ext_devices, obs,
                    svd, todo, phase, NUM_INSTRUCTIONS, LAST_INSTRUCTION,
                    BUSY_LOOP_REACHED, STOP_REQUESTED, args, last >>

BudgetNop == Instruction(NextPc([uc EXCEPT !.count = @ + 1]))

BudgetBranchSelf == Instruction([uc EXCEPT !.count = @ + 1])

\* the instruction makes an unmapped access: the memory hook moves PC past
\* it and sets CONTINUE_EXECUTION, uc.emu_start returns Err and the loop
\* continues
BudgetFault ==
    /\ phase = "run" /\ ~panic /\ at = "insn"
    /\ IF reg_read(uc, "PC") = LAST_INSTRUCTION[1]
       THEN uc' = NextPc(uc) /\ panic' = panic
       ELSE uc' = uc /\ panic' = TRUE
    /\ at' = "loop"
    /\ UNCHANGED << nvic, peripherals, debug_peripherals, gpio, ext_devices, obs,
                    svd, todo, phase, NUM_INSTRUCTIONS, LAST_INSTRUCTION,
                    BUSY_LOOP_REACHED, STOP_REQUESTED, args, last >>

NextBudget ==
    \/ LoopHead
    \/ \E quit \in BOOLEAN : BudgetHook(quit)
    \/ HostReturn
    \/ BudgetNop
    \/ BudgetBranchSelf
    \/ BudgetFault

SpecBudget == InitBudget /\ [][NextBudget]_vars

\* the loop, the host and the hook each take their turn
LoopTurn == Running /\ at = "loop" /\ at' = "hook"
HostTurn == Running /\ at = "hook" /\ at' \in { "insn", "loop" }
InsnTurn == Running /\ at = "insn" /\ at' \in { "hook", "loop" }

\* neither the loop nor a started host stands still
SpecBudgetLive ==
    /\ SpecBudget
    /\ WF_at(LoopTurn)
    /\ WF_at(HostTurn)
    /\ WF_at(InsnTurn)

BudgetDone ==
    phase = "stopped" /\ at = "loop" /\ ~STOP_REQUESTED /\ ~BUSY_LOOP_REACHED

\* C36: with max_instructions = M the loop terminates: over any number of
\* starts of the host, restarts after recovered unmapped accesses included,
\* each given M minus the instructions counted so far, the run stops once M
\* instructions have been counted, and the counter never exceeds M
BudgetEnds ==
    /\ [](NUM_INSTRUCTIONS <= args.max_instructions[1])
    /\ [](~panic)
    /\ [](at = "hook" => uc.budget = args.max_instructions[1] - (NUM_INSTRUCTIONS - uc.count))
    /\ [](BudgetDone => NUM_INSTRUCTIONS = args.max_instructions[1])
    /\ <>(phase # "run")
    /\ (NUM_INSTRUCTIONS = args.max_instructions[1] /\ phase = "run") ~> BudgetDone

\* the budget was reached by a host restarted after a recovered access
DoneAfterRestart ==
    /\ BudgetDone
    /\ args.max_instructions[1] = MaxBudget
    /\ uc.budget \in 1 .. MaxBudget - 1
    /\ uc.count = uc.budget


\* ---- a serial peripheral driving an LCD through ExtDevice::write and
\* ---- ExtDevice::read in any order (SpecLcd)

\* number of calls made on the device
MaxLcdCalls == 6

\* the panels configured: an even and an odd width, one row and two
LcdWidths == { 2, 3 }
LcdHeights == { 1, 2 }

\* StartDrawing, GetVersion, an idle byte and a colour
LcdBytes == { 251, 240, 0, 7 }

LcdConfig(width, height) == [peripheral |-> "SPI1", width |-> width, height |-> height]

InitLcd ==
    \E w \in LcdWidths : \E h \in LcdHeights :
      \E board \in { [Board EXCEPT !.d.lcds = << LcdNew(LcdConfig(w, h)) >>] } :
        InitOn(board, BoardSvd)

TheLcd == ext_devices.lcds[1]

\* the offsets of this step's writes that fall outside the framebuffer
Outside(calls) ==
    { k \in 1 .. Len(calls) :
        calls[k].kind = "pixel" /\ calls[k].index \notin DOMAIN TheLcd.framebuffer }

\* a write outside the framebuffer is undefined behaviour: it lands in memory
\* the process does not use, or it brings the process down.  A redraw pumps
\* the host's events and stops the run when the user has asked to quit
LcdSend(v, due, quit) ==
    /\ phase = "run" /\ ~panic
    /\ last.n < MaxLcdCalls
    /\ \E r \in { Lcd_write(ObserveBegin(Sys), 1, v, due) } :
         /\ \E crash \in (IF Outside(r.s.obs.calls) # { } THEN BOOLEAN ELSE { FALSE }) :
              SetSys([r.s EXCEPT !.panic = crash])
         /\ phase' = IF r.redraw /\ ~pump_events(quit) THEN "stopped" ELSE phase
    /\ last' = [op |-> "write", addr |-> ZERO, size |-> 1, value |-> U32(0, v),
                result |-> ZERO, n |-> last.n + 1]
    /\ UNCHANGED << svd, todo, at, NUM_INSTRUCTIONS, LAST_INSTRUCTION,
                    BUSY_LOOP_REACHED, STOP_REQUESTED, args >>

LcdFetch ==
    /\ phase = "run" /\ ~panic
    /\ last.n < MaxLcdCalls
    /\ \E r \in { Lcd_read(ObserveBegin(Sys), 1) } :
         /\ SetSys(r.s)
         /\ last' = [op |-> "read", addr |-> ZERO, size |-> 1, value |-> ZERO,
                     result |-> U32(0, r.value), n |-> last.n + 1]
    /\ UNCHANGED << svd, todo, phase, at, NUM_INSTRUCTIONS, LAST_INSTRUCTION,
                    BUSY_LOOP_REACHED, STOP_REQUESTED, args >>

NextLcd ==
    \/ \E v \in LcdBytes : \E due, quit \in BOOLEAN : LcdSend(v, due, quit)
    \/ LcdFetch

SpecLcd == InitLcd /\ [][NextLcd]_vars

LcdSendOf(v) == SendStep /\ last'.value = U32(0, v)

Origin == [x |-> 0, y |-> 0]

\* the position after a pixel pair drawn at p: to the right, then down, then
\* back to the top
AfterPair(p) ==
    IF p.x + 2 >= TheLcd.config.width
    THEN [x |-> 0, y |-> (p.y + 1) % TheLcd.config.height]
    ELSE [x |-> p.x + 2, y |-> p.y]

\* the byte is stored as pixel data at the cursor, which moves on
StoredAsPixel(v) ==
    /\ TheLcd'.drawing
    /\ \E k \in 1 .. Len(obs'.calls) :
         /\ obs'.calls[k].kind = "pixel" /\ obs'.calls[k].c = v
         /\ obs'.calls[k].index =
              TheLcd.current_position.x + TheLcd.current_position.y * TheLcd.config.width
    /\ TheLcd'.current_position = AfterPair(TheLcd.current_position)

\* C37: whenever the LCD is not in drawing mode and receives 0xFB, it enters
\* drawing mode with the cursor at (0,0), whatever bytes it received before;
\* every following byte is stored as pixel data, filling the framebuffer
\* left to right, top to bottom, and wrapping to the top after the last row
StartDrawingAlways ==
    [][ \A v \in LcdBytes :
          /\ (LcdSendOf(v) /\ ~TheLcd.drawing /\ v = 251) =>
                (TheLcd'.drawing /\ TheLcd'.current_position = Origin)
          /\ (LcdSendOf(v) /\ TheLcd.drawing) => StoredAsPixel(v)
      ]_vars

\* the same with no command waiting for its arguments
StartDrawingWhenIdle ==
    [][ \A v \in LcdBytes :
          /\ (LcdSendOf(v) /\ ~TheLcd.drawing /\ v = 251 /\ TheLcd.cmd = None) =>
                (TheLcd'.drawing /\ TheLcd'.current_position = Origin)
          /\ (LcdSendOf(v) /\ TheLcd.drawing) => StoredAsPixel(v)
      ]_vars

\* C38: for any byte sequence written to the LCD and any configured width
\* and height, odd widths included, every pixel index x + y*width the LCD
\* writes is within [0, W*H)
PixelsInside ==
    \A k \in 1 .. Len(obs.calls) :
       obs.calls[k].kind = "pixel" =>
          obs.calls[k].index \in 0 .. (TheLcd.config.width * TheLcd.config.height - 1)

\* the same on the panels of even width
PixelsInsideEven == TheLcd.config.width % 2 = 0 => PixelsInside


\* ---- the bytes a touchscreen receives (SpecSerial)

\* the store clocked the last bit of byte v into the touchscreen
TouchWritten(v) ==
    /\ PortAStore
    /\ \E k \in 1 .. Len(obs'.calls) :
         /\ obs'.calls[k].kind = "write"
         /\ obs'.calls[k].dev.list = "touchscreens"
         /\ obs'.calls[k].value = v

MeasureOps == { 5, 1, 3, 4 }

\* the write left the reply as it was: the reply after the step is the one
\* before it, less the bytes the step's reads have popped
ReplyKept ==
    LET before == ext_devices.touchscreens[1].reply
        after == ext_devices'.touchscreens[1].reply
    IN /\ (after = None) <=> (before = None)
       /\ after # None =>
             \E k \in 0 .. Len(before[1]) : after[1] = SubSeq(before[1], k + 1, Len(before[1]))

\* C39: a write of any byte 0x00..0xFF to the touchscreen is handled without
\* a fatal error: a byte without the start bit leaves the reply unchanged,
\* and every byte with the start bit, the operation codes other than the
\* four measure operations included, is answered or ignored
AnyByteHandled ==
    [][ \A v \in 0 .. 255 :
          TouchWritten(v) =>
             /\ ~panic'
             /\ v < 128 => ReplyKept
      ]_vars

\* the same for the bytes without the start bit and the four measure operations
MeasureByteHandled ==
    [][ \A v \in 0 .. 255 :
          (TouchWritten(v) /\ (v < 128 \/ (v \div 16) % 8 \in MeasureOps)) =>
             /\ ~panic'
             /\ v < 128 => ReplyKept
      ]_vars


\* ---- a firmware storing to a stream's CR again and again (SpecRestage): it
\* ---- keeps the value it last stored to CR in R0; R1 is 1 when a staged
\* ---- value was waiting in the stream at the time of that store

\* number of accesses the firmware makes
MaxCrAccess == 5

\* enable with each direction, and values with the enable bit clear:
\* 0x01, 0x41, 0x81, 0x00, 0x400, 0x40
CrValues == { U32(0, 1), U32(0, 65), U32(0, 129), ZERO, U32(0, 1024), U32(0, 64) }

NdtrValues == { ZERO, U32(0, 2) }

InitRestage == InitDma

RestageStore(r, value) ==
    /\ phase = "run" /\ ~panic
    /\ last.n < MaxCrAccess
    /\ \E s \in { write_cb(ObserveBegin(Sys), StreamReg(r), 4, value) } :
         SetSys(IF r = 0
                THEN [s EXCEPT !.uc.regs["R0"] = value,
                               !.uc.regs["R1"] =
                                  IF StreamOf(peripherals).next_cr # None
                                  THEN U32(0, 1) ELSE ZERO]
                ELSE s)
    /\ last' = [op |-> "write", addr |-> StreamReg(r), size |-> 4,
                value |-> value, result |-> ZERO, n |-> last.n + 1]
    /\ UNCHANGED << svd, todo, phase, at, NUM_INSTRUCTIONS, LAST_INSTRUCTION,
                    BUSY_LOOP_REACHED, STOP_REQUESTED, args >>

RestageLoad ==
    /\ phase = "run" /\ ~panic
    /\ last.n < MaxCrAccess
    /\ \E res \in { read_cb(ObserveBegin(Sys), StreamReg(0), 4) } :
         /\ SetSys(res.s)
         /\ last' = [op |-> "read", addr |-> StreamReg(0), size |-> 4,
                     value |-> ZERO, result |-> res.value, n |-> last.n + 1]
    /\ UNCHANGED << svd, todo, phase, at, NUM_INSTRUCTIONS, LAST_INSTRUCTION,
                    BUSY_LOOP_REACHED, STOP_REQUESTED, args >>

NextRestage ==
    \/ \E v \in CrValues : RestageStore(0, v)
    \/ \E v \in NdtrValues : RestageStore(4, v)
    \/ RestageLoad

SpecRestage == InitRestage /\ [][NextRestage]_vars

CrWritten == uc.regs["R0"]

\* the written value and NDTR match the zero-length memory-to-peripheral case
\* in which a CR read toggles the ready flag
ZeroLengthWrite ==
    /\ and32(shr32(CrWritten, 6), U32(0, 3)) = U32(0, 1)
    /\ StreamOf(peripherals).ndtr = ZERO

CrLoadStep == last'.n = last.n + 1 /\ last'.op = "read"

\* C40: after a store to CR with the enable bit clear (the zero-length
\* memory-to-peripheral case apart), every read of CR until the next store
\* to CR returns the value stored, even when an earlier enabling store left a
\* staged value that was never read
StagedNeverOverrides ==
    [][ (CrLoadStep /\ CrWritten[2] % 2 = 0 /\ ~ZeroLengthWrite) =>
           last'.result = CrWritten ]_vars

\* the same for a value whose direction is not memory to peripheral, stored
\* when no staged value was waiting
UnstagedStoreReadsBack ==
    [][ (CrLoadStep /\ CrWritten[2] % 2 = 0
           /\ and32(shr32(CrWritten, 6), U32(0, 3)) # U32(0, 1)
           /\ uc.regs["R1"] = ZERO) =>
           last'.result = CrWritten ]_vars

====
